---- MODULE Spec2Model ----
(***************************************************************************)
(* Model of the Bambu Lab RFID library scripts:                            *)
(*   generate-encrypted-json.py : binary dump -> Proxmark3 JSON document   *)
(*   decrypt-rfid-dumps.py      : key derivation / key loading / decoding  *)
(* Python strings that the code slices, formats or compares are sequences  *)
(* of one-character strings; dicts are sequences of <<key, value>> pairs   *)
(* in insertion order; bytes are sequences of integers 0..255.             *)
(***************************************************************************)
EXTENDS Integers, Sequences, FiniteSets, TLC

VARIABLES pc, data, doc, blocks, sector_keys, access_conditions, sector,
          access_text, CRYPTO_AVAILABLE, uid, keys, key_file, yaml_output,
          filename, parse, dump_path, key_source, files, run_result, ret,
          force, bin_files, position, generated_count, failed_count,
          skipped_count, log, args, missing_files, files_before, errors,
          key_bin_path

vars == <<pc, data, doc, blocks, sector_keys, access_conditions, sector,
          access_text, CRYPTO_AVAILABLE, uid, keys, key_file, yaml_output,
          filename, parse, dump_path, key_source, files, run_result, ret,
          force, bin_files, position, generated_count, failed_count,
          skipped_count, log, args, missing_files, files_before, errors,
          key_bin_path>>

\* the state of the file-handling functions of the scripts
\* the state of the batch loop of generate-encrypted-json.py
batchvars == <<force, bin_files, position, generated_count, failed_count,
               skipped_count, log>>

\* the state of main of local-json-generator.py (with the files as they were
\* when it started), of the validator and of the key file converter
toolvars == <<args, missing_files, files_before, errors, key_bin_path>>

iovars == <<key_file, yaml_output, filename, parse, dump_path, key_source,
            files, run_result, ret, batchvars, toolvars>>

(* ----------------------------- bounds ---------------------------------- *)
MaxSeed == 2
MaxEntries == 2
MaxUidByte == 2

(* ----------------------- Python values and builtins --------------------- *)
\* a value not yet computed
Unset == [unset |-> TRUE]

\* process_dump_file and generate_json_for_bin have not been called
DumpIdle ==
    /\ dump_path = Unset
    /\ key_source = Unset
    /\ files = Unset
    /\ run_result = Unset
    /\ ret = Unset

\* the batch loop has not been started
BatchIdle ==
    /\ force = Unset
    /\ bin_files = Unset
    /\ position = Unset
    /\ generated_count = Unset
    /\ failed_count = Unset
    /\ skipped_count = Unset
    /\ log = Unset

\* main of local-json-generator.py, the validator and the key file converter
\* have not been started
ToolIdle ==
    /\ key_bin_path = Unset
    /\ args = Unset
    /\ missing_files = Unset
    /\ files_before = Unset
    /\ errors = Unset

\* the file-handling functions have not been called
IoIdle ==
    /\ key_file = Unset
    /\ yaml_output = Unset
    /\ filename = Unset
    /\ parse = Unset
    /\ DumpIdle
    /\ BatchIdle
    /\ ToolIdle

\* Optional results: None, or a value
None == [is_none |-> TRUE]
Some(v) == [is_none |-> FALSE, value |-> v]

\* results of a call that may raise
Raised(e) == [raised |-> TRUE, exc |-> e]
Returned(v) == [raised |-> FALSE, value |-> v]

\* a file on disk: open() raises, or read() gives its bytes
Unreadable == [readable |-> FALSE]
FileOf(bs) == [readable |-> TRUE, bytes |-> bs]

HexLower == <<"0","1","2","3","4","5","6","7","8","9","a","b","c","d","e","f">>

\* str.upper() on one character
UpperChar(c) ==
    CASE c = "a" -> "A" [] c = "b" -> "B" [] c = "c" -> "C"
      [] c = "d" -> "D" [] c = "e" -> "E" [] c = "f" -> "F"
      [] OTHER -> c

\* str.upper()
Upper(s) == [i \in 1..Len(s) |-> UpperChar(s[i])]

\* bytes.hex(): two lowercase hex digits per byte, high nibble first
Hex(bs) ==
    [i \in 1..(2 * Len(bs)) |->
        IF i % 2 = 1 THEN HexLower[(bs[(i + 1) \div 2] \div 16) + 1]
                     ELSE HexLower[(bs[i \div 2] % 16) + 1]]

\* Python slice s[a:b] for 0 <= a, 0 <= b (0-based, end exclusive, clamped)
Slice(s, a, b) ==
    LET hi == IF b > Len(s) THEN Len(s) ELSE b
    IN  IF a >= hi THEN << >> ELSE [i \in 1..(hi - a) |-> s[a + i]]

\* Python slice s[-n:]
LastN(s, n) == IF Len(s) <= n THEN s ELSE Slice(s, Len(s) - n, Len(s))

\* ASCII whitespace: what str.strip() removes and bytes.fromhex() skips
IsSpace(c) == c \in {" ", "\t", "\n", "\r"}

IsHexDigit(c) ==
    \E v \in 0..15 : HexLower[v + 1] = c \/ UpperChar(HexLower[v + 1]) = c

\* value of one hex digit, either case
HexDigitValue(c) == CHOOSE v \in 0..15 : HexLower[v + 1] = c \/ UpperChar(HexLower[v + 1]) = c

\* positions of the characters bytes.fromhex() does not skip
NonSpace(h) == SelectSeq([i \in 1..Len(h) |-> i], LAMBDA i : ~IsSpace(h[i]))

\* bytes.fromhex(h) accepts pairs of adjacent hex digits, with any ASCII
\* whitespace before, between and after the pairs; anything else raises
\* ValueError
IsHexString(h) ==
    LET p == NonSpace(h)
    IN  /\ Len(p) % 2 = 0
        /\ \A k \in 1..Len(p) : IsHexDigit(h[p[k]])
        /\ \A j \in 1..(Len(p) \div 2) : p[2 * j] = p[2 * j - 1] + 1

\* bytes.fromhex(h) for such a string
FromHex(h) ==
    LET p == NonSpace(h)
    IN  [i \in 1..(Len(p) \div 2) |->
            16 * HexDigitValue(h[p[2 * i - 1]]) + HexDigitValue(h[p[2 * i]])]

\* str(n) for n >= 0
RECURSIVE Str(_)
Str(n) == IF n < 10 THEN <<HexLower[n + 1]>>
          ELSE Str(n \div 10) \o <<HexLower[(n % 10) + 1]>>

DigitValue(c) == CHOOSE d \in 0..9 : HexLower[d + 1] = c

IsDigitChar(c) == \E d \in 0..9 : HexLower[d + 1] = c

\* int(k) succeeds on a non-empty string of decimal digits
IsInt(k) == Len(k) > 0 /\ \A i \in 1..Len(k) : IsDigitChar(k[i])

\* int(k) for a string of decimal digits
RECURSIVE IntOf(_)
IntOf(k) ==
    IF Len(k) = 1 THEN DigitValue(k[1])
    ELSE 10 * IntOf(SubSeq(k, 1, Len(k) - 1)) + DigitValue(k[Len(k)])

\* str.startswith(prefix)
StartsWith(s, prefix) ==
    Len(s) >= Len(prefix) /\ SubSeq(s, 1, Len(prefix)) = prefix

(* dict: sequence of <<key, value>> pairs, insertion order, unique keys *)
DictKeys(d) == [i \in 1..Len(d) |-> d[i][1]]

DictHas(d, k) == \E i \in 1..Len(d) : d[i][1] = k

DictGet(d, k) == d[CHOOSE i \in 1..Len(d) : d[i][1] = k][2]

\* d[k] = v
DictSet(d, k, v) ==
    IF DictHas(d, k)
    THEN [i \in 1..Len(d) |-> IF d[i][1] = k THEN <<k, v>> ELSE d[i]]
    ELSE Append(d, <<k, v>>)

(* ------------------- generate-encrypted-json.py ------------------------ *)
UserDataKey == <<"U","s","e","r","D","a","t","a">>

\* f"block{n}"
BlockKey(n) == <<"b","l","o","c","k">> \o Str(n)

TrailerText == "read ACCESS by AB; write ACCESS by B"
DataText == "read AB"

\* mutant: the large-sector loop tests i == 3 like the small-sector loop
BlockTextLoop_mut(result, base_block, count) ==
    result \o [n \in 1..count |->
                 <<BlockKey(base_block + n - 1),
                   IF n - 1 = 3 THEN TrailerText ELSE DataText>>]

\* for i in range(count): result[f"block{base_block + i}"] = ...
\* every iteration writes a key not yet in result, so it appends one entry
BlockTextLoop(result, base_block, count) ==
    result \o [n \in 1..count |->
                 <<BlockKey(base_block + n - 1),
                   IF n - 1 = count - 1 THEN TrailerText ELSE DataText>>]

\* mutant: the large-sector branch computes its base block like the
\* small-sector branch
generate_access_conditions_text_mut(ac, s) ==
    LET user_data == LastN(ac, 2)
        result == <<<<UserDataKey, user_data>>>>
    IN  IF s < 32
        THEN BlockTextLoop(result, s * 4, 4)
        ELSE BlockTextLoop(result, s * 4, 16)

generate_access_conditions_text(ac, s) ==
    LET user_data == LastN(ac, 2)
        result == <<<<UserDataKey, user_data>>>>
    IN  IF s < 32
        THEN BlockTextLoop(result, s * 4, 4)
        ELSE BlockTextLoop(result, 128 + (s - 32) * 16, 16)

\* mutant: the large-sector branch keeps the small-sector trailer offset
SectorTrailerBlock_mut(s) ==
    IF s < 32 THEN s * 4 + 3 ELSE 128 + (s - 32) * 16 + 3

\* sector_trailer_block of the loop body
SectorTrailerBlock(s) ==
    IF s < 32 THEN s * 4 + 3 ELSE 128 + (s - 32) * 16 + 15

\* mutant: the dynamic sector count of the middle branch is dropped
MaxSectors_mut(max_block) ==
    IF max_block >= 127 THEN 40 ELSE 16

\* max_sectors from max_block
MaxSectors(max_block) ==
    IF max_block >= 127 THEN 40
    ELSE IF max_block >= 63 THEN (max_block + 1) \div 4
    ELSE 16

\* mutant: the access conditions are cut after 3 bytes
SectorData_mut(trailer_hex, s) ==
    LET key_a == Slice(trailer_hex, 0, 12)
        acc == Slice(trailer_hex, 12, 18)
        key_b == Slice(trailer_hex, 20, 32)
        text == generate_access_conditions_text(acc, s)
    IN  DictSet(DictSet(DictSet(DictSet(<< >>,
            "KeyA", key_a), "KeyB", key_b),
            "AccessConditions", acc), "AccessConditionsText", text)

\* the OrderedDict built for one sector from its trailer hex
SectorData(trailer_hex, s) ==
    LET key_a == Slice(trailer_hex, 0, 12)
        acc == Slice(trailer_hex, 12, 20)
        key_b == Slice(trailer_hex, 20, 32)
        text == generate_access_conditions_text(acc, s)
    IN  DictSet(DictSet(DictSet(DictSet(<< >>,
            "KeyA", key_a), "KeyB", key_b),
            "AccessConditions", acc), "AccessConditionsText", text)

\* the two `continue` tests of the loop body: the sector gets an entry
HasTrailer(blks, s) ==
    LET k == Str(SectorTrailerBlock(s))
    IN  DictHas(blks, k) /\ Len(DictGet(blks, k)) = 32

\* for sector in range(max_sectors): ... sector_keys[str(sector)] = ...
\* the sectors that reach the assignment, in loop order; str(sector) is a
\* new key each time, so each assignment appends one entry
SectorLoop(blks, max_sectors) ==
    LET kept == SelectSeq([n \in 1..max_sectors |-> n - 1],
                          LAMBDA s : HasTrailer(blks, s))
    IN  [n \in 1..Len(kept) |->
            <<Str(kept[n]),
              SectorData(DictGet(blks, Str(SectorTrailerBlock(kept[n]))),
                         kept[n])>>]

\* returns the SectorKeys dict; max() of no keys and int() of a
\* non-numeric key raise ValueError
extract_sector_keys_from_blocks(blks) ==
    IF Len(blks) = 0 \/ \E i \in 1..Len(blks) : ~IsInt(blks[i][1])
    THEN Raised("ValueError")
    ELSE LET ints == {IntOf(blks[i][1]) : i \in 1..Len(blks)}
             max_block == CHOOSE m \in ints : \A n \in ints : n <= m
         IN  Returned(SectorLoop(blks, MaxSectors(max_block)))

CardType1K == <<"M","I","F","A","R","E"," ","C","l","a","s","s","i","c"," ","1","K">>
CardType1KPlus2 == CardType1K \o <<"+","2","s","e","c","t","o","r","s">>
CardType4K == <<"M","I","F","A","R","E"," ","C","l","a","s","s","i","c"," ","4","K">>

\* mutant: every size from 4096 bytes on is taken as a 4K dump
ClassifySize_mut(n) ==
    IF n = 1024
    THEN Some([expected_blocks |-> 64, card_type |-> CardType1K])
    ELSE IF n = 1152
    THEN Some([expected_blocks |-> 72, card_type |-> CardType1KPlus2])
    ELSE IF n >= 4096
    THEN Some([expected_blocks |-> 256, card_type |-> CardType4K])
    ELSE None

\* expected_blocks / card_type chosen from len(data); None for other sizes
ClassifySize(n) ==
    IF n = 1024
    THEN Some([expected_blocks |-> 64, card_type |-> CardType1K])
    ELSE IF n = 1152
    THEN Some([expected_blocks |-> 72, card_type |-> CardType1KPlus2])
    ELSE IF n = 4096
    THEN Some([expected_blocks |-> 256, card_type |-> CardType4K])
    ELSE None

\* mutant: the block hex is left in lower case
BlocksLoop_mut(d, expected_blocks) ==
    [n \in 1..expected_blocks |->
        <<Str(n - 1), Hex(Slice(d, (n - 1) * 16, (n - 1) * 16 + 16))>>]

\* blocks = {}; for block_num in range(expected_blocks):
\*     blocks[str(block_num)] = data[start_pos:end_pos].hex().upper()
\* str() gives a new key in every iteration, so each assignment appends:
\* entry block_num + 1 of the dict is the one written by iteration block_num
BlocksLoop(d, expected_blocks) ==
    [n \in 1..expected_blocks |->
        <<Str(n - 1), Upper(Hex(Slice(d, (n - 1) * 16, (n - 1) * 16 + 16)))>>]

\* ATQA / SAK from card_type
CardAtqa(card_type) ==
    IF StartsWith(card_type, CardType4K) THEN <<"0","2","0","0">>
    ELSE <<"0","4","0","0">>

\* mutant: only the plain 1K card type gets the 1K SAK
CardSak_mut(card_type) ==
    IF card_type = CardType1K THEN <<"0","8">> ELSE <<"1","8">>

CardSak(card_type) ==
    IF StartsWith(card_type, CardType4K) THEN <<"1","8">> ELSE <<"0","8">>

\* f is the file at bin_file; any exception is caught and gives None
bin_to_proxmark3_json(f) ==
    IF ~f.readable THEN None
    ELSE LET d == f.bytes
             c == ClassifySize(Len(d)) IN
      IF c.is_none THEN None
      ELSE LET u == Upper(Hex(Slice(d, 0, 4)))
               blks == BlocksLoop(d, c.value.expected_blocks)
               sk == extract_sector_keys_from_blocks(blks)
           IN  IF sk.raised THEN None
               ELSE Some(<<
                 <<"Created", "proxmark3">>,
                 <<"FileType", "mfc v2">>,
                 <<"Card", << <<"UID", u>>,
                              <<"ATQA", CardAtqa(c.value.card_type)>>,
                              <<"SAK", CardSak(c.value.card_type)>> >> >>,
                 <<"blocks", blks>>,
                 <<"SectorKeys", sk.value>> >>)

(* ------------------------------ inputs ---------------------------------- *)
\* dump file sizes tried: the three supported sizes, their neighbours,
\* other multiples of 16, and the empty file
DumpLengths == {0, 1, 16, 1008, 1023, 1024, 1025, 1040, 1136, 1151, 1152,
                1153, 1168, 2048, 4080, 4095, 4096, 4097, 4112}

\* byte i (0-based) of the dump with stride a and seed b; the term in
\* (i \div 256) makes all 16-byte blocks of a dump pairwise different
DumpByte(a, b, i) == (a * i + 161 + 37 * b + 3 * (i \div 256)) % 256

MkDump(n, a, b) == [i \in 1..n |-> DumpByte(a, b, i - 1)]

DumpFiles ==
    {Unreadable} \cup
    {FileOf(MkDump(n, a, b)) : n \in DumpLengths, a \in {1, 7}, b \in 0..MaxSeed}

\* block indices used as keys of hand-made block mappings
CandidateBlocks == {3, 7, 63, 64, 67, 127, 143, 255}

\* hex lengths of hand-made block values
CandidateHexLens == {30, 32, 34}

\* a block value of n hex characters whose content depends on the block
CandidateHex(blk, n) ==
    SubSeq(Upper(Hex([j \in 1..17 |-> (7 * blk + 13 * j + 161) % 256])), 1, n)

CandidateEntries ==
    {<<Str(blk), CandidateHex(blk, n)>> :
        blk \in CandidateBlocks, n \in CandidateHexLens}

\* dicts of at most MaxEntries entries with pairwise different keys
BlockMappings ==
    UNION {{m \in [1..n -> CandidateEntries] :
              \A i, j \in 1..n : i # j => m[i][1] # m[j][1]} : n \in 0..MaxEntries}

AccessStrings ==
    {Upper(Hex(bs)) : bs \in {<<255, 7, 128, 105>>, <<0, 0, 0, 0>>,
                              <<120, 119, 136, 171>>}}

SectorIndices == 0..39

(* --------------------- generate-encrypted-json.py ----------------------- *)
Init ==
    /\ pc \in {"bin_to_proxmark3_json", "extract_sector_keys_from_blocks",
               "generate_access_conditions_text"}
    /\ IF pc = "bin_to_proxmark3_json" THEN data \in DumpFiles ELSE data = Unset
    /\ IF pc = "extract_sector_keys_from_blocks"
       THEN blocks \in BlockMappings ELSE blocks = Unset
    /\ IF pc = "generate_access_conditions_text"
       THEN access_conditions \in AccessStrings /\ sector \in SectorIndices
       ELSE access_conditions = Unset /\ sector = Unset
    /\ doc = Unset
    /\ sector_keys = Unset
    /\ access_text = Unset
    /\ CRYPTO_AVAILABLE = Unset
    /\ uid = Unset
    /\ keys = Unset
    /\ IoIdle

ConvertDump ==
    /\ pc = "bin_to_proxmark3_json"
    /\ doc' = bin_to_proxmark3_json(data)
    /\ pc' = "converted"
    /\ UNCHANGED <<data, blocks, sector_keys, access_conditions, sector,
                   access_text, CRYPTO_AVAILABLE, uid, keys>>
    /\ UNCHANGED iovars

ExtractSectorKeys ==
    /\ pc = "extract_sector_keys_from_blocks"
    /\ sector_keys' = extract_sector_keys_from_blocks(blocks)
    /\ pc' = "extracted"
    /\ UNCHANGED <<data, doc, blocks, access_conditions, sector,
                   access_text, CRYPTO_AVAILABLE, uid, keys>>
    /\ UNCHANGED iovars

GenerateAccessText ==
    /\ pc = "generate_access_conditions_text"
    /\ access_text' = generate_access_conditions_text(access_conditions, sector)
    /\ pc' = "described"
    /\ UNCHANGED <<data, doc, blocks, sector_keys, access_conditions, sector,
                   CRYPTO_AVAILABLE, uid, keys>>
    /\ UNCHANGED iovars

Next == ConvertDump \/ ExtractSectorKeys \/ GenerateAccessText

Spec == Init /\ [][Next]_vars

(* ------------------------ decrypt-rfid-dumps.py ------------------------- *)
\* Python values whose type the code does not fix: a bytes object and a
\* tuple both support len() and slicing, and a slice keeps the type
Bytes(bs) == [type |-> "bytes", val |-> bs]
Tuple(xs) == [type |-> "tuple", val |-> xs]
PyLen(x) == Len(x.val)
PySlice(x, a, b) == [type |-> x.type, val |-> Slice(x.val, a, b)]

\* self.KEY_LENGTH
KEY_LENGTH == 6

\* master of derive_bambu_keys
MasterKey ==
    Bytes(<<154, 117, 156, 242, 196, 247, 202, 255,
            34, 44, 185, 118, 155, 65, 188, 150>>)

\* b"RFID-A\0"
RfidContext == Bytes(<<82, 70, 73, 68, 45, 65, 0>>)

\* byte n (0-based) of the output key material of HKDF for the given input
\* keying material, salt, hash and context: an uninterpreted term
HKDFByte(ikm, salt, hashmod, context, n) ==
    [ikm |-> ikm, salt |-> salt, hash |-> hashmod, context |-> context, n |-> n]

\* Cryptodome.Protocol.KDF.HKDF(master, key_len, salt, hashmod, num_keys,
\* context): key_len * num_keys bytes of output key material, returned as
\* one byte string when num_keys = 1 and as a tuple of num_keys byte
\* strings of key_len bytes otherwise
HKDF(master, key_len, salt, hashmod, num_keys, context) ==
    LET key(k) == Bytes([j \in 1..key_len |->
                   HKDFByte(master.val, salt.val, hashmod, context.val,
                            k * key_len + j - 1)])
    IN  IF num_keys = 1 THEN key(0)
        ELSE Tuple([k \in 1..num_keys |-> key(k - 1)])

\* for i in range(0, len(keys_data), KEY_LENGTH):
\*     if i + KEY_LENGTH <= len(keys_data): keys.append(keys_data[i:i+KEY_LENGTH])
SplitKeys(keys_data) ==
    LET n == PyLen(keys_data)
        starts == [j \in 1..((n + KEY_LENGTH - 1) \div KEY_LENGTH) |->
                      (j - 1) * KEY_LENGTH]
        kept == SelectSeq(starts, LAMBDA i : i + KEY_LENGTH <= n)
    IN  [j \in 1..Len(kept) |-> PySlice(keys_data, kept[j], kept[j] + KEY_LENGTH)]

\* mutant: the master secret and the UID change places in the HKDF call
derive_bambu_keys_mut(crypto, u) ==
    IF ~crypto THEN << >>
    ELSE SplitKeys(HKDF(MasterKey, 6, u, "SHA256", 16, RfidContext))

derive_bambu_keys(crypto, u) ==
    IF ~crypto THEN << >>
    ELSE SplitKeys(HKDF(u, 6, MasterKey, "SHA256", 16, RfidContext))

\* tag UIDs tried: 4 bytes each
UidBytes == {(161 + 37 * k) % 256 : k \in 0..MaxUidByte}

Uids == {Bytes(<<a, b, c, d>>) : a \in UidBytes, b \in UidBytes,
                                 c \in UidBytes, d \in UidBytes}

InitKeys ==
    /\ pc = "derive_bambu_keys"
    /\ CRYPTO_AVAILABLE \in BOOLEAN
    /\ uid \in Uids
    /\ keys = Unset
    /\ data = Unset
    /\ doc = Unset
    /\ blocks = Unset
    /\ sector_keys = Unset
    /\ access_conditions = Unset
    /\ sector = Unset
    /\ access_text = Unset
    /\ IoIdle

DeriveKeys ==
    /\ pc = "derive_bambu_keys"
    /\ keys' = derive_bambu_keys(CRYPTO_AVAILABLE, uid)
    /\ pc' = "derived"
    /\ UNCHANGED <<data, doc, blocks, sector_keys, access_conditions, sector,
                   access_text, CRYPTO_AVAILABLE, uid>>
    /\ UNCHANGED iovars

NextKeys == DeriveKeys

SpecKeys == InitKeys /\ [][NextKeys]_vars

(* ------------------------------ properties ------------------------------ *)
\* the parts of a document returned by bin_to_proxmark3_json
Converted == pc = "converted" /\ data.readable
HasDoc == Converted /\ ~doc.is_none
DocBlocks == DictGet(doc.value, "blocks")
DocSectorKeys == DictGet(doc.value, "SectorKeys")
DocCard == DictGet(doc.value, "Card")

\* uppercase hex of a byte string, written out digit by digit
UpperHexDigits == <<"0","1","2","3","4","5","6","7","8","9","A","B","C","D","E","F">>
HexOfByte(b) == <<UpperHexDigits[(b \div 16) + 1], UpperHexDigits[(b % 16) + 1]>>
ExpectedHex(bs) == [i \in 1..(2 * Len(bs)) |-> HexOfByte(bs[(i + 1) \div 2])[2 - (i % 2)]]

\* the sector layout of MIFARE Classic: first block and size of sector s
ExpectedFirstBlock(s) == IF s <= 31 THEN 4 * s ELSE 128 + 16 * (s - 32)
ExpectedSize(s) == IF s <= 31 THEN 4 ELSE 16
ExpectedTrailer(s) == IF s <= 31 THEN 4 * s + 3 ELSE 128 + 16 * (s - 32) + 15

\* the block indices of mapping blks whose hex starts with the 12
\* characters of KeyA followed by the 8 characters of AccessConditions
BlocksStartingWith(blks, prefix) ==
    {IntOf(blks[i][1]) : i \in {j \in 1..Len(blks) :
        Len(blks[j][2]) >= Len(prefix) /\ SubSeq(blks[j][2], 1, Len(prefix)) = prefix}}

\* every entry of SectorKeys sk was read from the block at the expected
\* trailer index of its sector, and from no other block of blks
TrailersAsExpected(blks, sk) ==
    \A i \in 1..Len(sk) :
        LET s == IntOf(sk[i][1])
            prefix == DictGet(sk[i][2], "KeyA") \o DictGet(sk[i][2], "AccessConditions")
        IN  /\ s \in 0..39
            /\ ExpectedTrailer(s) \in BlocksStartingWith(blks, prefix)
            /\ \A t \in 0..39 :
                 ExpectedTrailer(t) \in BlocksStartingWith(blks, prefix) => t = s

\* C1: a dump of 1024, 1152 or 4096 bytes yields a document with 64, 72 or
\* 256 blocks; every other length (0 and other multiples of 16 included)
\* makes bin_to_proxmark3_json return None: no blocks, no SectorKeys.
C1_ClassifyBySize ==
    Converted =>
        LET n == Len(data.bytes) IN
        /\ n = 1024 => ~doc.is_none /\ Len(DocBlocks) = 64
        /\ n = 1152 => ~doc.is_none /\ Len(DocBlocks) = 72
        /\ n = 4096 => ~doc.is_none /\ Len(DocBlocks) = 256
        /\ n \notin {1024, 1152, 4096} => doc.is_none

C1_Witness ==
    /\ Converted
    /\ Len(data.bytes) = 1040
    /\ doc.is_none

\* C2: the trailer block read for sector s is block 4*s+3 for s in 0..31
\* and block 128+16*(s-32)+15 for s in 32..39; the mapping from sector to
\* trailer block is injective on 0..39; and a document has entries for
\* sectors >= 32 only when it has 256 blocks.
C2_TrailerIndex ==
    /\ \A s \in 0..39 : SectorTrailerBlock(s) = ExpectedTrailer(s)
    /\ \A s, t \in 0..39 : s # t => SectorTrailerBlock(s) # SectorTrailerBlock(t)
    /\ HasDoc =>
        /\ TrailersAsExpected(DocBlocks, DocSectorKeys)
        /\ \A i \in 1..Len(DocSectorKeys) :
              IntOf(DocSectorKeys[i][1]) >= 32 => Len(DocBlocks) = 256
    /\ (pc = "extracted" /\ ~sector_keys.raised) =>
          TrailersAsExpected(blocks, sector_keys.value)

C2_Witness ==
    /\ HasDoc
    /\ Len(DocBlocks) = 256
    /\ DictHas(DocSectorKeys, Str(39))
    /\ DictHas(DocSectorKeys, Str(31))
\* number of 'block<N>' entries of an AccessConditionsText (all but UserData)
BlockEntries(text) == Len(text) - 1

\* C3 as stated: in the document of a 1152-byte dump, sectors below 16
\* are described as four-block sectors and sectors at or above 16 as
\* sixteen-block sectors.
C3_SixteenBlockSectors ==
    (HasDoc /\ Len(data.bytes) = 1152) =>
        \A i \in 1..Len(DocSectorKeys) :
            LET s == IntOf(DocSectorKeys[i][1])
                text == DictGet(DocSectorKeys[i][2], "AccessConditionsText")
            IN  BlockEntries(text) = IF s >= 16 THEN 16 ELSE 4

\* C3 amended: the document of a 1152-byte dump (72 blocks) has exactly the
\* sectors 0..17, in order, and every one of them, 16 and 17 included, is a
\* four-block sector: sector s describes blocks 4*s .. 4*s+3.
C3_EighteenSmallSectors ==
    (HasDoc /\ Len(data.bytes) = 1152) =>
        /\ Len(DocBlocks) = 72
        /\ DictKeys(DocSectorKeys) = [i \in 1..18 |-> Str(i - 1)]
        /\ \A i \in 1..Len(DocSectorKeys) :
            LET s == IntOf(DocSectorKeys[i][1])
                text == DictGet(DocSectorKeys[i][2], "AccessConditionsText")
            IN  /\ BlockEntries(text) = 4
                /\ \A j \in 1..4 : text[j + 1][1] = BlockKey(4 * s + j - 1)

C3_Witness ==
    /\ HasDoc
    /\ Len(data.bytes) = 1152
    /\ DictHas(DocSectorKeys, Str(16))
    /\ DictHas(DocSectorKeys, Str(17))

\* every entry of SectorKeys sk splits the 32 hex characters of its
\* sector's trailer block in blks into KeyA, AccessConditions, KeyB
TrailerSplit(blks, sk) ==
    \A i \in 1..Len(sk) :
        LET s == IntOf(sk[i][1])
            entry == sk[i][2]
            t == DictGet(blks, Str(ExpectedTrailer(s)))
        IN  /\ Len(t) = 32
            /\ DictGet(entry, "KeyA") = SubSeq(t, 1, 12)
            /\ DictGet(entry, "AccessConditions") = SubSeq(t, 13, 20)
            /\ DictGet(entry, "KeyB") = SubSeq(t, 21, 32)
            /\ DictGet(entry, "KeyA") \o DictGet(entry, "AccessConditions")
                  \o DictGet(entry, "KeyB") = t
            /\ DictKeys(entry) =
                  <<"KeyA", "KeyB", "AccessConditions", "AccessConditionsText">>

\* C4: for every sector in SectorKeys, KeyA is bytes 0-5 of its trailer
\* block, AccessConditions bytes 6-9 and KeyB bytes 10-15 (hex characters
\* 0..11, 12..19, 20..31); KeyA + AccessConditions + KeyB is the trailer's
\* hex string; the fields come in the order KeyA, KeyB, AccessConditions,
\* AccessConditionsText.
C4_TrailerFields ==
    /\ HasDoc =>
        /\ TrailerSplit(DocBlocks, DocSectorKeys)
        /\ \A i \in 1..Len(DocSectorKeys) :
            LET first == 16 * ExpectedTrailer(IntOf(DocSectorKeys[i][1]))
                entry == DocSectorKeys[i][2]
            IN  /\ DictGet(entry, "KeyA") =
                      ExpectedHex(SubSeq(data.bytes, first + 1, first + 6))
                /\ DictGet(entry, "AccessConditions") =
                      ExpectedHex(SubSeq(data.bytes, first + 7, first + 10))
                /\ DictGet(entry, "KeyB") =
                      ExpectedHex(SubSeq(data.bytes, first + 11, first + 16))
    /\ (pc = "extracted" /\ ~sector_keys.raised) =>
          TrailerSplit(blocks, sector_keys.value)

C4_Witness ==
    /\ HasDoc
    /\ Len(DocSectorKeys) = 40
    /\ DictGet(DictGet(DocSectorKeys, Str(39)), "KeyB") =
          ExpectedHex(SubSeq(data.bytes, 4091, 4096))
\* C5 as stated: for any block mapping the call returns, and sector s is
\* in the returned SectorKeys exactly when the mapping has its trailer
\* block with a hex string of 32 characters.
C5_OmitMissingTrailers ==
    pc = "extracted" =>
        /\ ~sector_keys.raised
        /\ \A s \in 0..39 :
             DictHas(sector_keys.value, Str(s)) <=>
                /\ DictHas(blocks, Str(ExpectedTrailer(s)))
                /\ Len(DictGet(blocks, Str(ExpectedTrailer(s)))) = 32

\* C6: for every sector s and every 8-character access string the result
\* starts with UserData = the last two hex characters, followed by one
\* 'block<N>' entry per block of the sector in ascending order; the last
\* block (the trailer) has the trailer text and every other block "read AB".
C6_AccessText ==
    pc = "described" =>
        LET first == ExpectedFirstBlock(sector)
            size == ExpectedSize(sector)
        IN  /\ Len(access_text) = 1 + size
            /\ access_text[1][1] = UserDataKey
            /\ access_text[1][2] = SubSeq(access_conditions, 7, 8)
            /\ \A j \in 1..size :
                 /\ access_text[j + 1][1] = BlockKey(first + j - 1)
                 /\ access_text[j + 1][2] =
                      IF first + j - 1 = ExpectedTrailer(sector)
                      THEN "read ACCESS by AB; write ACCESS by B"
                      ELSE "read AB"

C6_Witness ==
    /\ pc = "described"
    /\ sector = 35
    /\ Len(access_text) = 17
    /\ access_text[17] = <<BlockKey(191), "read ACCESS by AB; write ACCESS by B">>

\* C7: every document has Created = "proxmark3", FileType = "mfc v2",
\* Card.UID = uppercase hex of the first 4 dump bytes, and ATQA/SAK =
\* "0200"/"18" exactly for the 4096-byte layout, "0400"/"08" otherwise.
C7_CardFields ==
    HasDoc =>
        /\ DictGet(doc.value, "Created") = "proxmark3"
        /\ DictGet(doc.value, "FileType") = "mfc v2"
        /\ DictGet(DocCard, "UID") = ExpectedHex(SubSeq(data.bytes, 1, 4))
        /\ DictGet(DocCard, "ATQA") =
              IF Len(data.bytes) = 4096 THEN <<"0","2","0","0">>
              ELSE <<"0","4","0","0">>
        /\ DictGet(DocCard, "SAK") =
              IF Len(data.bytes) = 4096 THEN <<"1","8">> ELSE <<"0","8">>

C7_Witness ==
    /\ HasDoc
    /\ Len(data.bytes) = 1152
    /\ DictGet(DocCard, "ATQA") = <<"0","4","0","0">>
    /\ DictGet(DocCard, "SAK") = <<"0","8">>

\* the bytes of a blocks mapping: its blocks decoded from hex and
\* concatenated in index order
ToBytes(blks) ==
    LET decoded == [i \in 1..Len(blks) |-> FromHex(DictGet(blks, Str(i - 1)))]
    IN  [k \in 1..(16 * Len(blks)) |-> decoded[((k - 1) \div 16) + 1][((k - 1) % 16) + 1]]

\* C8: the blocks mapping of a dump with n blocks has the keys "0".."n-1"
\* in ascending order, each value the 32-character uppercase hex of dump
\* bytes [16*i, 16*i+16); decoding the mapping gives the dump back, and
\* encoding the decoded bytes again gives the identical mapping.
C8_BlocksRoundTrip ==
    HasDoc =>
        LET n == Len(data.bytes) \div 16 IN
        /\ DictKeys(DocBlocks) = [i \in 1..n |-> Str(i - 1)]
        /\ \A i \in 1..n :
             DocBlocks[i][2] = ExpectedHex(SubSeq(data.bytes, 16 * (i - 1) + 1, 16 * i))
        /\ ToBytes(DocBlocks) = data.bytes
        /\ BlocksLoop(ToBytes(DocBlocks), n) = DocBlocks

C8_Witness ==
    /\ HasDoc
    /\ Len(DocBlocks) = 256
    /\ DocBlocks[256][1] = <<"2","5","5">>
    /\ ToBytes(DocBlocks) = data.bytes
Derived == pc = "derived" /\ CRYPTO_AVAILABLE

\* C9 as stated: with the primitive available, derive_bambu_keys returns
\* exactly 6 keys, each a byte string of exactly 6 bytes.
C9_SixKeysOfSixBytes ==
    Derived =>
        /\ Len(keys) = 6
        /\ \A i \in 1..Len(keys) : keys[i].type = "bytes" /\ PyLen(keys[i]) = 6

\* the bytes of one returned element: its own bytes when it is a byte
\* string, the bytes of its members in order when it is a tuple of them
ElementBytes(x) ==
    IF x.type = "bytes" THEN x.val
    ELSE [k \in 1..(6 * Len(x.val)) |->
            x.val[((k - 1) \div 6) + 1].val[((k - 1) % 6) + 1]]

\* all key bytes returned by derive_bambu_keys, in order (every element
\* of the result carries the same number of bytes)
ReturnedBytes ==
    LET per == IF Len(keys) = 0 THEN 0 ELSE Len(ElementBytes(keys[1]))
    IN  [k \in 1..(per * Len(keys)) |->
            ElementBytes(keys[((k - 1) \div per) + 1])[((k - 1) % per) + 1]]

\* C10 as stated: the derived keys are output of HKDF with the master
\* secret as input keying material, the UID as salt, SHA-256 and the
\* label "RFID-A"+NUL as context.
C10_MasterIsIkm ==
    Derived =>
        /\ Len(ReturnedBytes) > 0
        /\ \A k \in 1..Len(ReturnedBytes) :
             /\ ReturnedBytes[k].ikm =
                  <<154, 117, 156, 242, 196, 247, 202, 255,
                    34, 44, 185, 118, 155, 65, 188, 150>>
             /\ ReturnedBytes[k].salt = uid.val
             /\ ReturnedBytes[k].hash = "SHA256"
             /\ ReturnedBytes[k].context = <<82, 70, 73, 68, 45, 65, 0>>

\* C10 amended: the derived keys are output of HKDF with the tag UID as
\* input keying material, the fixed 16-byte master secret as salt, SHA-256
\* as hash and the 7-byte label "RFID-A"+NUL as context; the returned key
\* bytes are consecutive bytes of that output, from its first byte on.
C10_UidIsIkm ==
    Derived =>
        /\ Len(ReturnedBytes) > 0
        /\ \A k \in 1..Len(ReturnedBytes) :
             ReturnedBytes[k] =
                [ikm |-> uid.val,
                 salt |-> <<154, 117, 156, 242, 196, 247, 202, 255,
                            34, 44, 185, 118, 155, 65, 188, 150>>,
                 hash |-> "SHA256",
                 context |-> <<82, 70, 73, 68, 45, 65, 0>>,
                 n |-> k - 1]

C10_Witness ==
    /\ Derived
    /\ uid.val = <<161, 198, 235, 161>>
    /\ Len(keys) > 0
    /\ ReturnedBytes[1].ikm = <<161, 198, 235, 161>>

(* ----------------- decrypt-rfid-dumps.py: key files --------------------- *)
MaxChunks == 2
MaxLines == 2

\* a text file: open() raises, or the file gives its characters
TextFileOf(t) == [readable |-> TRUE, text |-> t]

\* b'\\x00' * self.KEY_LENGTH: the literal escapes the backslash, so it is
\* the four bytes of the characters \ x 0 0, KEY_LENGTH times over
ZeroKeyLiteral ==
    [i \in 1..(4 * KEY_LENGTH) |-> <<92, 120, 48, 48>>[((i - 1) % 4) + 1]]

\* key_data[i:i+6] for i in range(0, len(key_data), KEY_LENGTH)
KeyChunks(key_data) ==
    [j \in 1..((Len(key_data) + KEY_LENGTH - 1) \div KEY_LENGTH) |->
        Slice(key_data, (j - 1) * KEY_LENGTH, j * KEY_LENGTH)]

\* a chunk equal to the literal is skipped; a chunk of KEY_LENGTH bytes is
\* appended; an exception while reading gives the empty list
load_keys_from_bin(file) ==
    IF ~file.readable THEN << >>
    ELSE LET kept == SelectSeq(KeyChunks(file.bytes),
                      LAMBDA key_bytes : /\ key_bytes # ZeroKeyLiteral
                                         /\ Len(key_bytes) = KEY_LENGTH)
         IN  [k \in 1..Len(kept) |-> Bytes(kept[k])]

\* str.strip(): the text between the first and the last non-space character
Strip(s) ==
    LET p == NonSpace(s)
    IN  IF Len(p) = 0 THEN << >> ELSE Slice(s, p[1] - 1, p[Len(p)])

\* for line in f: the lines of a text, each with its newline when it has one
FileLines(text) ==
    LET nl == SelectSeq([i \in 1..Len(text) |-> i], LAMBDA i : text[i] = "\n")
        last == IF Len(nl) = 0 THEN 0 ELSE nl[Len(nl)]
        n == IF last < Len(text) THEN Len(nl) + 1 ELSE Len(nl)
    IN  [k \in 1..n |->
            Slice(text, IF k = 1 THEN 0 ELSE nl[k - 1],
                        IF k <= Len(nl) THEN nl[k] ELSE Len(text))]

\* line = line.strip(); if line and len(line) == 12: bytes.fromhex(line),
\* a ValueError skips the line; an exception while reading gives []
load_keys_from_dic(file) ==
    IF ~file.readable THEN << >>
    ELSE LET lines == FileLines(file.text)
             stripped == [k \in 1..Len(lines) |-> Strip(lines[k])]
             good == SelectSeq(stripped,
                               LAMBDA line : /\ Len(line) > 0
                                             /\ Len(line) = 12
                                             /\ IsHexString(line))
         IN  [k \in 1..Len(good) |-> Bytes(FromHex(good[k]))]

\* 6-byte records a key file is built from
KeyChunkChoices ==
    {<<0, 0, 0, 0, 0, 0>>, <<161, 162, 163, 164, 165, 166>>,
     <<0, 0, 0, 0, 0, 1>>, <<255, 255, 255, 255, 255, 255>>}

\* incomplete records at the end of a key file
KeyTails == {<< >>, <<0, 0, 0>>, <<1, 2, 3, 4, 5>>}

Flatten(cs) ==
    [i \in 1..(KEY_LENGTH * Len(cs)) |->
        cs[((i - 1) \div KEY_LENGTH) + 1][((i - 1) % KEY_LENGTH) + 1]]

\* a 16-sector key file holds 16 records, 96 bytes
FullKeyFile(c) == Flatten([k \in 1..16 |-> c])

KeyBinFiles ==
    {FileOf(Flatten(cs) \o t) :
        cs \in UNION {[1..n -> KeyChunkChoices] : n \in 0..MaxChunks},
        t \in KeyTails}
    \cup {FileOf(FullKeyFile(c)) : c \in KeyChunkChoices}
    \cup {Unreadable}

\* lines a dictionary file is built from
DicLineChoices ==
    {<<"A", "A", "B", "B", "C", "C", "D", "D", "E", "E", "F", "F">>,
     <<"a", "1", "b", "2", "c", "3", "d", "4", "e", "5", "f", "6">>,
     <<"A", "A", "B", "B", "C", "C", "D", "D", "E", "E", "F">>,
     <<"A", "A", "B", "B", "C", "C", "D", "D", "E", "E", "F", "F", "0">>,
     <<>>,
     <<"A", "A", "B", "B", "C", "C", "D", "D", "E", "E", "G", "G">>,
     <<"A", "A", " ", "B", "B", " ", "C", "C", "D", "D", "E", "E">>,
     <<"A", "A", "B", "B", "C", " ", "C", "D", "D", "E", "E", "F">>,
     <<" ", "A", "A", "B", "B", "C", "C", "D", "D", "E", "E", "F", "F", "\t">>,
     <<" ", " ", "A", "A", "B", "B", "C", "C", "D", "D", "E", "E">>}

RECURSIVE JoinLines(_)
JoinLines(ls) ==
    IF Len(ls) = 0 THEN << >>
    ELSE ls[1] \o <<"\n">> \o JoinLines(Tail(ls))

\* dictionary files: every line ended by a newline, or the last one not
KeyDicFiles ==
    LET texts == {JoinLines(ls) :
                    ls \in UNION {[1..n -> DicLineChoices] : n \in 0..MaxLines}}
    IN  {TextFileOf(t) : t \in texts}
        \cup {TextFileOf(SubSeq(t, 1, Len(t) - 1)) : t \in texts \ {<< >>}}
        \cup {Unreadable}

InitLoad ==
    /\ pc \in {"load_keys_from_bin", "load_keys_from_dic"}
    /\ IF pc = "load_keys_from_bin" THEN key_file \in KeyBinFiles
                                    ELSE key_file \in KeyDicFiles
    /\ keys = Unset
    /\ data = Unset
    /\ doc = Unset
    /\ blocks = Unset
    /\ sector_keys = Unset
    /\ access_conditions = Unset
    /\ sector = Unset
    /\ access_text = Unset
    /\ CRYPTO_AVAILABLE = Unset
    /\ uid = Unset
    /\ yaml_output = Unset
    /\ filename = Unset
    /\ parse = Unset
    /\ DumpIdle
    /\ BatchIdle
    /\ ToolIdle

LoadKeysFromBin ==
    /\ pc = "load_keys_from_bin"
    /\ keys' = load_keys_from_bin(key_file)
    /\ pc' = "loaded_from_bin"
    /\ UNCHANGED <<data, doc, blocks, sector_keys, access_conditions, sector,
                   access_text, CRYPTO_AVAILABLE, uid, key_file, yaml_output,
                   filename, parse, dump_path, key_source, files, run_result,
                   ret, batchvars, toolvars>>

LoadKeysFromDic ==
    /\ pc = "load_keys_from_dic"
    /\ keys' = load_keys_from_dic(key_file)
    /\ pc' = "loaded_from_dic"
    /\ UNCHANGED <<data, doc, blocks, sector_keys, access_conditions, sector,
                   access_text, CRYPTO_AVAILABLE, uid, key_file, yaml_output,
                   filename, parse, dump_path, key_source, files, run_result,
                   ret, batchvars, toolvars>>

NextLoad == LoadKeysFromBin \/ LoadKeysFromDic

SpecLoad == InitLoad /\ [][NextLoad]_vars

(* ------------------------ properties: key files ------------------------- *)
IsZeroChunk(c) == \A i \in 1..Len(c) : c[i] = 0

\* C11: load_keys_from_bin returns, in input order, exactly the complete
\* 6-byte chunks of the file that are not entirely zero: a file of 96 zero
\* bytes gives the empty list, a file of 16 non-zero chunks gives 16 keys
C11_NonZeroChunks ==
    (pc = "loaded_from_bin" /\ key_file.readable) =>
        LET chunks == SelectSeq(KeyChunks(key_file.bytes),
                                LAMBDA c : Len(c) = 6 /\ ~IsZeroChunk(c))
        IN  keys = [k \in 1..Len(chunks) |-> Bytes(chunks[k])]

\* the 6 bytes written by 12 hex digits
TwelveHexValue(line) ==
    [i \in 1..6 |->
        16 * HexDigitValue(line[2 * i - 1]) + HexDigitValue(line[2 * i])]

IsTwelveHex(line) ==
    Len(line) = 12 /\ \A i \in 1..12 : IsHexDigit(line[i])

\* C12: load_keys_from_dic returns, in line order, one 6-byte key for each
\* line that after trimming is exactly 12 hexadecimal characters and nothing
\* for any other line (blank, other length, or a 12-character line with a
\* non-hex character such as an interior space); every key has 6 bytes
C12_TwelveHexLines ==
    (pc = "loaded_from_dic" /\ key_file.readable) =>
        LET lines == FileLines(key_file.text)
            trimmed == [k \in 1..Len(lines) |-> Strip(lines[k])]
            hexes == SelectSeq(trimmed, IsTwelveHex)
        IN  /\ keys = [k \in 1..Len(hexes) |-> Bytes(TwelveHexValue(hexes[k]))]
            /\ \A k \in 1..Len(keys) : Len(keys[k].val) = 6

(* --------------- decoder report -> decoded record (parsers) ------------- *)
MaxReportLines == 3

\* Python values of a decoded record
PyStr(s) == [type |-> "str", val |-> s]
PyInt(n) == [type |-> "int", val |-> n]
PyBool(b) == [type |-> "bool", val |-> b]
PyDict(d) == [type |-> "dict", val |-> d]

UpperLetters == <<"A","B","C","D","E","F","G","H","I","J","K","L","M","N","O","P","Q","R","S","T","U","V","W","X","Y","Z">>
LowerLetters == <<"a","b","c","d","e","f","g","h","i","j","k","l","m","n","o","p","q","r","s","t","u","v","w","x","y","z">>

\* str.lower()
LowerChar(c) ==
    IF \E k \in 1..26 : UpperLetters[k] = c
    THEN LowerLetters[CHOOSE k \in 1..26 : UpperLetters[k] = c]
    ELSE c

Lower(s) == [k \in 1..Len(s) |-> LowerChar(s[k])]

\* str.endswith(suffix)
EndsWith(s, suffix) ==
    Len(s) >= Len(suffix) /\ SubSeq(s, Len(s) - Len(suffix) + 1, Len(s)) = suffix

\* sub occurs in s at 0-based offset k
OccursAt(s, sub, k) == SubSeq(s, k + 1, k + Len(sub)) = sub

\* sub in s
Contains(s, sub) == \E k \in 0..(Len(s) - Len(sub)) : OccursAt(s, sub, k)

\* s.split(sep, 1) when sep occurs in s: the text before and after the first
\* occurrence
SplitOnce(s, sep) ==
    LET k == CHOOSE j \in 0..(Len(s) - Len(sep)) :
                 OccursAt(s, sep, j) /\ \A h \in 0..(j - 1) : ~OccursAt(s, sep, h)
    IN  <<Slice(s, 0, k), Slice(s, k + Len(sep), Len(s))>>

\* s.split('\n'): one part more than there are newlines
SplitNewlines(s) ==
    LET nl == SelectSeq([k \in 1..Len(s) |-> k], LAMBDA k : s[k] = "\n")
    IN  [k \in 1..(Len(nl) + 1) |->
            Slice(s, IF k = 1 THEN 0 ELSE nl[k - 1],
                     IF k <= Len(nl) THEN nl[k] - 1 ELSE Len(s))]

\* os.path.basename(path): what follows the last slash
Basename(path) ==
    LET sl == SelectSeq([k \in 1..Len(path) |-> k], LAMBDA k : path[k] = "/")
    IN  IF Len(sl) = 0 THEN path ELSE Slice(path, sl[Len(sl)], Len(path))

ColonSpace == <<":", " ">>
DashSpace == <<"-", " ">>
TempPrefix == <<" ", " ", "-", " ">>
TEMPERATURES == <<"t", "e", "m", "p", "e", "r", "a", "t", "u", "r", "e", "s">>
BED_TEMP_TYPE == <<"b", "e", "d", "_", "t", "e", "m", "p", "_", "t", "y", "p", "e">>
FILENAME == <<"f", "i", "l", "e", "n", "a", "m", "e">>
TrueText == <<"t", "r", "u", "e">>
FalseText == <<"f", "a", "l", "s", "e">>

\* int(temp_val) succeeds on an optional sign followed by decimal digits
IsSignedInt(s) ==
    IF Len(s) > 0 /\ s[1] \in {"+", "-"} THEN IsInt(Tail(s)) ELSE IsInt(s)

SignedIntOf(s) ==
    IF s[1] = "-" THEN 0 - IntOf(Tail(s))
    ELSE IF s[1] = "+" THEN IntOf(Tail(s)) ELSE IntOf(s)

\* "Handle other fields": isdigit -> int, true/false in any case -> bool,
\* anything else is kept as text
Coerce(value) ==
    IF IsInt(value) THEN PyInt(IntOf(value))
    ELSE IF Lower(value) = TrueText THEN PyBool(TRUE)
    ELSE IF Lower(value) = FalseText THEN PyBool(FALSE)
    ELSE PyStr(value)

\* inside the temperatures block only bed_temp_type is converted, with int()
TempValue(temp_key, temp_val) ==
    IF temp_key = BED_TEMP_TYPE /\ IsSignedInt(temp_val)
    THEN PyInt(SignedIntOf(temp_val))
    ELSE PyStr(temp_val)

\* the state of a parser: the lines, the 0-based index of the next line, the
\* record built so far, and whether the inner while loop is running
ParserStart(yaml_text) ==
    [lines |-> SplitNewlines(Strip(yaml_text)), i |-> 0, data |-> << >>,
     state |-> "TopLevel"]

ParserDone(p) == p.state = "TopLevel" /\ p.i >= Len(p.lines)

\* mutant: the index moves on only for a sub-field line with ': ' in it
TemperatureStep_mut(p) ==
    IF p.i < Len(p.lines) /\ StartsWith(p.lines[p.i + 1], TempPrefix)
    THEN LET temp_line == Slice(p.lines[p.i + 1], 4, Len(p.lines[p.i + 1]))
             kv == SplitOnce(temp_line, ColonSpace)
             temps == DictGet(p.data, TEMPERATURES).val
         IN  IF Contains(temp_line, ColonSpace)
             THEN [p EXCEPT !.i = p.i + 1,
                            !.data = DictSet(p.data, TEMPERATURES,
                                PyDict(DictSet(temps, Strip(kv[1]),
                                    TempValue(Strip(kv[1]), Strip(kv[2])))))]
             ELSE p
    ELSE [p EXCEPT !.state = "TopLevel"]

\* one test of "while i < len(lines) and lines[i].startswith('  - ')" and,
\* when it holds, one pass through the body of the inner loop
TemperatureStep(p) ==
    IF p.i < Len(p.lines) /\ StartsWith(p.lines[p.i + 1], TempPrefix)
    THEN LET temp_line == Slice(p.lines[p.i + 1], 4, Len(p.lines[p.i + 1]))
             kv == SplitOnce(temp_line, ColonSpace)
             temps == DictGet(p.data, TEMPERATURES).val
         IN  IF Contains(temp_line, ColonSpace)
             THEN [p EXCEPT !.i = p.i + 1,
                            !.data = DictSet(p.data, TEMPERATURES,
                                PyDict(DictSet(temps, Strip(kv[1]),
                                    TempValue(Strip(kv[1]), Strip(kv[2])))))]
             ELSE [p EXCEPT !.i = p.i + 1]
    ELSE [p EXCEPT !.state = "TopLevel"]

\* a key and value read from a line: the temperatures header opens the
\* nested mapping and starts the inner loop, any other field is assigned
Field(p, key, value) ==
    IF key = TEMPERATURES /\ Len(value) = 0
    THEN [p EXCEPT !.data = DictSet(p.data, TEMPERATURES, PyDict(<< >>)),
                   !.i = p.i + 1,
                   !.state = "InTemperatureBlock"]
    ELSE [p EXCEPT !.data = DictSet(p.data, key, Coerce(value)),
                   !.i = p.i + 1]

\* RFIDDecryptor.yaml_to_json: one pass through the outer while loop (up to
\* the start of the inner loop), or one step of the inner loop
yaml_to_json_step(p) ==
    IF p.state = "InTemperatureBlock" THEN TemperatureStep(p)
    ELSE LET line == Strip(p.lines[p.i + 1])
             skip == [p EXCEPT !.i = p.i + 1]
             remaining == Slice(line, 2, Len(line))
             kv == SplitOnce(remaining, ColonSpace)
         IN  IF Len(line) = 0 \/ StartsWith(line, <<"#">>) THEN skip
             ELSE IF ~StartsWith(line, DashSpace) THEN skip
             ELSE IF ~(Contains(line, ColonSpace) \/ EndsWith(line, <<":">>))
                  THEN skip
             ELSE IF Contains(remaining, ColonSpace)
                  THEN Field(p, Strip(kv[1]), Strip(kv[2]))
             ELSE IF EndsWith(remaining, <<":">>)
                  THEN Field(p, Strip(Slice(remaining, 0, Len(remaining) - 1)),
                             << >>)
             ELSE skip

\* local-json-generator.py yaml_to_json: the same loop, but a "- " line needs
\* ': ' in it, and a line with ': ' that does not start with '-' is a field
local_yaml_to_json_step(p) ==
    IF p.state = "InTemperatureBlock" THEN TemperatureStep(p)
    ELSE LET line == Strip(p.lines[p.i + 1])
             skip == [p EXCEPT !.i = p.i + 1]
             dashed == SplitOnce(Slice(line, 2, Len(line)), ColonSpace)
             plain == SplitOnce(line, ColonSpace)
         IN  IF Len(line) = 0 \/ StartsWith(line, <<"#">>) THEN skip
             ELSE IF StartsWith(line, DashSpace) /\ Contains(line, ColonSpace)
                  THEN Field(p, Strip(dashed[1]), Strip(dashed[2]))
             ELSE IF Contains(line, ColonSpace) /\ ~StartsWith(line, <<"-">>)
                  THEN Field(p, Strip(plain[1]), Strip(plain[2]))
             ELSE skip

RECURSIVE RunDecryptorParser(_)
RunDecryptorParser(p) ==
    IF ParserDone(p) THEN p ELSE RunDecryptorParser(yaml_to_json_step(p))

RECURSIVE RunLocalParser(_)
RunLocalParser(p) ==
    IF ParserDone(p) THEN p ELSE RunLocalParser(local_yaml_to_json_step(p))

\* mutant: a filename assigned by the report is kept
DecryptorRecord_mut(data_, filename_) ==
    IF DictHas(data_, FILENAME) THEN data_
    ELSE DictSet(data_, FILENAME, PyStr(Basename(filename_)))

\* data['filename'] = os.path.basename(filename); return data
DecryptorRecord(data_, filename_) ==
    DictSet(data_, FILENAME, PyStr(Basename(filename_)))

\* RFIDDecryptor.yaml_to_json(yaml_output, filename)
yaml_to_json(yaml_text, filename_) ==
    DecryptorRecord(RunDecryptorParser(ParserStart(yaml_text)).data, filename_)

\* local-json-generator.py yaml_to_json(yaml_output)
local_yaml_to_json(yaml_text) == RunLocalParser(ParserStart(yaml_text)).data

\* lines a decoder report is built from
ReportLineChoices ==
    {<<"-", " ", "t", "y", "p", "e", ":", " ", "P", "L", "A">>,
     <<"-", " ", "t", "e", "m", "p", "e", "r", "a", "t", "u", "r", "e", "s", ":">>,
     <<" ", " ", "-", " ", "b", "e", "d", "_", "t", "e", "m", "p", "_", "t", "y", "p", "e", ":", " ", "0">>,
     <<" ", " ", "-", " ", "m", "i", "n", "_", "h", "o", "t", "e", "n", "d", ":", " ", "1", "9", "0">>,
     <<"-", " ", "w", "e", "i", "g", "h", "t", ":", " ", "2", "5", "0">>,
     <<"-", " ", "o", "k", ":", " ", "T", "R", "U", "E">>,
     <<"k", "e", "y", ":", " ", "v", "a", "l", "u", "e">>,
     <<>>,
     <<"#", " ", "n", "o", "t", "e">>,
     <<"-", " ", "e", "m", "p", "t", "y", ":">>,
     <<" ", " ", "-", " ", "o", "d", "d">>}

\* the report of the documented scenario
ExampleReport ==
    JoinLines(<<<<"-", " ", "f", "i", "l", "a", "m", "e", "n", "t", "_", "t", "y", "p", "e", ":", " ", "P", "L", "A">>,
                <<"-", " ", "t", "e", "m", "p", "e", "r", "a", "t", "u", "r", "e", "s", ":">>,
                <<" ", " ", "-", " ", "b", "e", "d", "_", "t", "e", "m", "p", "_", "t", "y", "p", "e", ":", " ", "0">>,
                <<" ", " ", "-", " ", "m", "i", "n", "_", "h", "o", "t", "e", "n", "d", ":", " ", "1", "9", "0">>>>)

Reports ==
    {JoinLines(ls) :
        ls \in UNION {[1..n -> ReportLineChoices] : n \in 0..MaxReportLines}}
    \cup {ExampleReport}

DumpPath == <<"l", "i", "b", "/", "a", ".", "b", "i", "n">>

InitParser ==
    /\ pc \in {"RFIDDecryptor.yaml_to_json", "yaml_to_json"}
    /\ yaml_output \in Reports
    /\ filename = IF pc = "yaml_to_json" THEN Unset ELSE DumpPath
    /\ parse = ParserStart(yaml_output)
    /\ data = Unset
    /\ doc = Unset
    /\ blocks = Unset
    /\ sector_keys = Unset
    /\ access_conditions = Unset
    /\ sector = Unset
    /\ access_text = Unset
    /\ CRYPTO_AVAILABLE = Unset
    /\ uid = Unset
    /\ keys = Unset
    /\ key_file = Unset
    /\ DumpIdle
    /\ BatchIdle
    /\ ToolIdle

\* RFIDDecryptor.yaml_to_json: the loop
ParseStep ==
    /\ pc = "RFIDDecryptor.yaml_to_json"
    /\ ~ParserDone(parse)
    /\ parse' = yaml_to_json_step(parse)
    /\ UNCHANGED <<pc, data, doc, blocks, sector_keys, access_conditions,
                   sector, access_text, CRYPTO_AVAILABLE, uid, keys, key_file,
                   yaml_output, filename, dump_path, key_source, files,
                   run_result, ret, batchvars, toolvars>>

\* RFIDDecryptor.yaml_to_json: the filename is added and the record returned
ParseReturn ==
    /\ pc = "RFIDDecryptor.yaml_to_json"
    /\ ParserDone(parse)
    /\ data' = DecryptorRecord(parse.data, filename)
    /\ pc' = "parsed"
    /\ UNCHANGED <<doc, blocks, sector_keys, access_conditions,
                   sector, access_text, CRYPTO_AVAILABLE, uid, keys, key_file,
                   yaml_output, filename, parse, dump_path, key_source, files,
                   run_result, ret, batchvars, toolvars>>

\* local-json-generator.py yaml_to_json: the loop
LocalParseStep ==
    /\ pc = "yaml_to_json"
    /\ ~ParserDone(parse)
    /\ parse' = local_yaml_to_json_step(parse)
    /\ UNCHANGED <<pc, data, doc, blocks, sector_keys, access_conditions,
                   sector, access_text, CRYPTO_AVAILABLE, uid, keys, key_file,
                   yaml_output, filename, dump_path, key_source, files,
                   run_result, ret, batchvars, toolvars>>

\* local-json-generator.py yaml_to_json: the record is returned
LocalParseReturn ==
    /\ pc = "yaml_to_json"
    /\ ParserDone(parse)
    /\ data' = parse.data
    /\ pc' = "parsed_local"
    /\ UNCHANGED <<doc, blocks, sector_keys, access_conditions,
                   sector, access_text, CRYPTO_AVAILABLE, uid, keys, key_file,
                   yaml_output, filename, parse, dump_path, key_source, files,
                   run_result, ret, batchvars, toolvars>>

NextParser == ParseStep \/ ParseReturn \/ LocalParseStep \/ LocalParseReturn

SpecParser == InitParser /\ [][NextParser]_vars

(* ------------------------- properties: parsers -------------------------- *)
\* the line the parser is about to read
CurrentLine == parse.lines[parse.i + 1]

\* a line "- <key>: <value>"
IsValueLine(l) ==
    StartsWith(l, DashSpace) /\ Contains(Slice(l, 2, Len(l)), ColonSpace)

\* a line "- <key>:"
IsEmptyValueLine(l) ==
    StartsWith(l, DashSpace) /\ ~IsValueLine(l) /\ EndsWith(l, <<":">>)

LineKey(l) ==
    IF IsValueLine(l) THEN Strip(SplitOnce(Slice(l, 2, Len(l)), ColonSpace)[1])
    ELSE Strip(Slice(l, 2, Len(l) - 1))

LineValue(l) ==
    IF IsValueLine(l) THEN Strip(SplitOnce(Slice(l, 2, Len(l)), ColonSpace)[2])
    ELSE << >>

\* the header "- temperatures:" (key temperatures, empty value)
IsTemperaturesHeader(l) ==
    /\ IsValueLine(l) \/ IsEmptyValueLine(l)
    /\ LineKey(l) = TEMPERATURES
    /\ LineValue(l) = << >>

\* C14: in the TopLevel state of RFIDDecryptor.yaml_to_json a line
\* "- <key>: <value>" assigns <key> the coerced value, a line "- <key>:"
\* assigns <key> the empty value, and every other line (blank, comment, not
\* of this shape) adds no field and leaves the parser state alone (the
\* temperatures header is the one field line that does more)
C14_TopLevelLines ==
    [][(/\ pc = "RFIDDecryptor.yaml_to_json"
        /\ parse.state = "TopLevel"
        /\ ~ParserDone(parse)
        /\ ~IsTemperaturesHeader(CurrentLine))
       => IF IsValueLine(CurrentLine)
          THEN /\ parse'.data = DictSet(parse.data, LineKey(CurrentLine),
                                        Coerce(LineValue(CurrentLine)))
               /\ parse'.state = "TopLevel"
          ELSE IF IsEmptyValueLine(CurrentLine)
          THEN /\ parse'.data = DictSet(parse.data, LineKey(CurrentLine),
                                        PyStr(<< >>))
               /\ parse'.state = "TopLevel"
          ELSE /\ parse'.data = parse.data
               /\ parse'.state = "TopLevel"]_vars

\* the top-level fields of a record other than temperatures
OtherFields(d) == SelectSeq(d, LAMBDA kv : kv[1] # TEMPERATURES)

\* C15: reading key temperatures with an empty value (the header line
\* "- temperatures:") opens an empty nested mapping and enters
\* InTemperatureBlock; in the block every line starting with "  - " is
\* consumed as a temperature sub-field, and the first line without that
\* prefix ends the block without being consumed, so that it is read next as
\* a TopLevel line
C15_TemperatureBlock ==
    [][(pc \in {"RFIDDecryptor.yaml_to_json", "yaml_to_json"}
        /\ ~ParserDone(parse))
       => /\ (parse.state = "TopLevel" /\ IsTemperaturesHeader(CurrentLine))
             => /\ parse'.state = "InTemperatureBlock"
                /\ DictHas(parse'.data, TEMPERATURES)
                /\ DictGet(parse'.data, TEMPERATURES) = PyDict(<< >>)
                /\ parse'.i = parse.i + 1
          /\ (parse.state = "InTemperatureBlock" /\ parse.i < Len(parse.lines)
              /\ StartsWith(CurrentLine, TempPrefix))
             => /\ parse'.state = "InTemperatureBlock"
                /\ parse'.i = parse.i + 1
                /\ OtherFields(parse'.data) = OtherFields(parse.data)
                /\ IsValueLine(Slice(CurrentLine, 2, Len(CurrentLine)))
                   => DictHas(DictGet(parse'.data, TEMPERATURES).val,
                              LineKey(Slice(CurrentLine, 2, Len(CurrentLine))))
          /\ (parse.state = "InTemperatureBlock"
              /\ ~(parse.i < Len(parse.lines)
                   /\ StartsWith(CurrentLine, TempPrefix)))
             => /\ parse'.state = "TopLevel"
                /\ parse'.i = parse.i
                /\ parse'.data = parse.data
          /\ parse.state = "TopLevel" => parse.i < Len(parse.lines)]_vars

\* every scalar stored in a record, top-level or inside temperatures
StoredScalars(d) ==
    {d[k][2] : k \in {j \in 1..Len(d) : d[j][2].type # "dict"}}
    \cup UNION {{d[k][2].val[h][2] : h \in 1..Len(d[k][2].val)} :
                    k \in {j \in 1..Len(d) : d[j][2].type = "dict"}}

\* a stored text that the coercion policy would have converted
Uncoerced(v) ==
    /\ v.type = "str"
    /\ IsInt(v.val) \/ Lower(v.val) = TrueText \/ Lower(v.val) = FalseText

\* the record of the documented scenario, without the filename field
ExampleRecord ==
    <<<<<<"f", "i", "l", "a", "m", "e", "n", "t", "_", "t", "y", "p", "e">>, PyStr(<<"P", "L", "A">>)>>,
      <<TEMPERATURES,
        PyDict(<<<<BED_TEMP_TYPE, PyInt(0)>>,
                 <<<<"m", "i", "n", "_", "h", "o", "t", "e", "n", "d">>, PyInt(190)>>>>)>>>>

\* C16: value coercion applies to every scalar the parser stores, top-level
\* and inside the temperatures block (all digits -> integer, true/false in
\* any case -> boolean, anything else verbatim), and the documented report
\* parses to filament_type = "PLA", temperatures = {bed_temp_type: 0,
\* min_hotend: 190} with both temperature values integers
C16_CoercionEverywhere ==
    pc \in {"parsed", "parsed_local"} =>
        /\ \A v \in StoredScalars(data) : ~Uncoerced(v)
        /\ yaml_output = ExampleReport =>
              SelectSeq(data, LAMBDA kv : kv[1] # FILENAME) = ExampleRecord

(* ------- decrypt-rfid-dumps.py / local-json-generator.py: one dump ------ *)
\* a JSON file written with json.dump
JsonFileOf(v) == [readable |-> TRUE, json |-> v]

\* str.replace(old, new): every occurrence, left to right
RECURSIVE Replace(_, _, _)
Replace(s, old, new) ==
    IF Len(s) < Len(old) \/ Len(s) = 0 THEN s
    ELSE IF StartsWith(s, old)
         THEN new \o Replace(Slice(s, Len(old), Len(s)), old, new)
         ELSE <<s[1]>> \o Replace(Tail(s), old, new)

\* os.path.dirname(path): what precedes the last slash
Dirname(path) ==
    LET sl == SelectSeq([k \in 1..Len(path) |-> k], LAMBDA k : path[k] = "/")
    IN  IF Len(sl) = 0 THEN << >> ELSE Slice(path, 0, sl[Len(sl)] - 1)

\* os.path.join(dir, name)
PathJoin(dir, name) == IF Len(dir) = 0 THEN name ELSE dir \o <<"/">> \o name

DotBin == <<".", "b", "i", "n">>
DotDic == <<".", "d", "i", "c">>
DotJson == <<".", "j", "s", "o", "n">>
DashKeyBin == <<"-", "k", "e", "y", ".", "b", "i", "n">>
DashKeyDic == <<"-", "k", "e", "y", ".", "d", "i", "c">>
HfMf == <<"h", "f", "-", "m", "f", "-">>
DecryptedJson == <<"-", "d", "e", "c", "r", "y", "p", "t", "e", "d", ".", "j", "s", "o", "n">>

\* get_uid_from_dump: the first four bytes of a dump of at least 16 bytes
get_uid_from_dump(dump_data) ==
    IF Len(dump_data) >= 16 THEN Some(Bytes(Slice(dump_data, 0, 4))) ELSE None

\* key_bin_candidates for a dump path and the UID in upper-case hex
key_bin_candidates(path, uid_hex) ==
    LET dump_dir == Dirname(path)
        dump_basename == Replace(Basename(path), DotBin, << >>)
    IN  <<PathJoin(dump_dir, dump_basename \o DashKeyBin),
          PathJoin(dump_dir, uid_hex \o DashKeyBin),
          PathJoin(dump_dir, HfMf \o uid_hex \o DashKeyBin)>>

key_dic_candidates(path, uid_hex) ==
    LET dump_dir == Dirname(path)
        dump_basename == Replace(Basename(path), DotBin, << >>)
    IN  <<PathJoin(dump_dir, dump_basename \o DotDic),
          PathJoin(dump_dir, uid_hex \o DotDic),
          PathJoin(dump_dir, HfMf \o uid_hex \o DashKeyDic)>>

\* for key_path in candidates: if os.path.exists(key_path): load; break
\* the paths of the candidates that exist, in list order
Existing(candidates, fs) == SelectSeq(candidates, LAMBDA c : DictHas(fs, c))

\* 1. the key source given by the caller
ProvidedKeys(source, fs) ==
    IF source.is_none THEN << >>
    ELSE IF ~DictHas(fs, source.value) THEN << >>
    ELSE IF EndsWith(source.value, DotBin)
         THEN load_keys_from_bin(DictGet(fs, source.value))
    ELSE IF EndsWith(source.value, DotDic)
         THEN load_keys_from_dic(DictGet(fs, source.value))
    ELSE << >>

\* mutant: the last candidate that exists is loaded
CompanionBinKeys_mut(path, uid_hex, fs) ==
    LET found == Existing(key_bin_candidates(path, uid_hex), fs)
    IN  IF Len(found) = 0 THEN << >>
        ELSE load_keys_from_bin(DictGet(fs, found[Len(found)]))

\* 2. companion key files: the loop stops at the first candidate that exists
CompanionBinKeys(path, uid_hex, fs) ==
    LET found == Existing(key_bin_candidates(path, uid_hex), fs)
    IN  IF Len(found) = 0 THEN << >>
        ELSE load_keys_from_bin(DictGet(fs, found[1]))

CompanionDicKeys(path, uid_hex, fs) ==
    LET found == Existing(key_dic_candidates(path, uid_hex), fs)
    IN  IF Len(found) = 0 THEN << >>
        ELSE load_keys_from_dic(DictGet(fs, found[1]))

\* lines 271-323 of process_dump_file: provided source, companion .bin,
\* companion .dic, UID-derived keys, each tried "if not keys"
FindKeys(path, source, u, crypto, fs) ==
    LET uid_hex == Upper(Hex(u.val))
        provided == ProvidedKeys(source, fs)
        bin == CompanionBinKeys(path, uid_hex, fs)
        dic == CompanionDicKeys(path, uid_hex, fs)
    IN  IF Len(provided) > 0 THEN provided
        ELSE IF Len(bin) > 0 THEN bin
        ELSE IF Len(dic) > 0 THEN dic
        ELSE derive_bambu_keys(crypto, u)

\* what subprocess.run gives: the decoder's exit status and output, or
\* TimeoutExpired (local generator only, which passes timeout=30)
Exited(rc, out) == [timeout |-> FALSE, returncode |-> rc, stdout |-> out]
TimedOut == [timeout |-> TRUE, returncode |-> 0 - 1, stdout |-> << >>]

FilenameReport == JoinLines(<<<<"-", " ", "f", "i", "l", "e", "n", "a", "m", "e", ":", " ", "e", "v", "i", "l">>, <<"-", " ", "t", "y", "p", "e", ":", " ", "P", "L", "A">>>>)

DecoderResults ==
    {Exited(1, << >>), Exited(1, ExampleReport), Exited(0, << >>),
     Exited(0, <<" ", "\n">>), Exited(0, ExampleReport),
     Exited(0, FilenameReport)}

\* parse_decrypted_data_to_json: a non-zero status or an output that is
\* empty after strip() gives None, else the record of yaml_to_json
parse_decrypted_data_to_json(r, original_bin_path) ==
    IF r.timeout \/ r.returncode # 0 THEN None
    ELSE IF Len(Strip(r.stdout)) = 0 THEN None
    ELSE Some(yaml_to_json(Strip(r.stdout), original_bin_path))

\* the 6 bytes of a key file
KeyOf(n) == [j \in 1..KEY_LENGTH |-> 16 * n + j]

\* a key file holding one key, and one holding none (3 stray bytes)
OneKeyBin(n) == FileOf(KeyOf(n))
NoKeyBin == FileOf(<<0, 0, 0>>)
OneKeyDic(n) == TextFileOf(Upper(Hex(KeyOf(n))) \o <<"\n">>)
NoKeyDic == TextFileOf(<<"#", "\n">>)

\* the dump processed, its UID A1B2C3D4, and its directory
GoodDump == FileOf([k \in 1..16 |-> IF k <= 4 THEN 144 + 17 * k ELSE 0])
ShortDump == FileOf(<<161, 178, 195, 212>>)
LibDump == <<"l", "i", "b", "/", "a", ".", "b", "i", "n">>
RootDump == <<"b", ".", "b", "i", "n">>
ParseScript == <<"p", "a", "r", "s", "e", ".", "p", "y">>
ProvidedBin == <<"k", "e", "y", "s", "/", "k", ".", "b", "i", "n">>
ProvidedDic == <<"k", "e", "y", "s", "/", "k", ".", "d", "i", "c">>
ProvidedTxt == <<"k", "e", "y", "s", "/", "k", ".", "t", "x", "t">>
CompanionPaths ==
    <<<<"l", "i", "b", "/", "a", "-", "k", "e", "y", ".", "b", "i", "n">>,
      <<"l", "i", "b", "/", "A", "1", "B", "2", "C", "3", "D", "4", "-", "k", "e", "y", ".", "b", "i", "n">>,
      <<"l", "i", "b", "/", "h", "f", "-", "m", "f", "-", "A", "1", "B", "2", "C", "3", "D", "4", "-", "k", "e", "y", ".", "b", "i", "n">>,
      <<"l", "i", "b", "/", "a", ".", "d", "i", "c">>,
      <<"l", "i", "b", "/", "A", "1", "B", "2", "C", "3", "D", "4", ".", "d", "i", "c">>,
      <<"l", "i", "b", "/", "h", "f", "-", "m", "f", "-", "A", "1", "B", "2", "C", "3", "D", "4", "-", "k", "e", "y", ".", "d", "i", "c">>>>

\* each companion file is absent, holds no key, or holds its own key
CompanionChoices(n) ==
    {None, Some(IF n <= 3 THEN NoKeyBin ELSE NoKeyDic),
     Some(IF n <= 3 THEN OneKeyBin(n) ELSE OneKeyDic(n))}

\* the key source argument and the file it names, if any
ProvidedChoices ==
    {[arg |-> None, file |-> None],
     [arg |-> Some(ProvidedBin), file |-> None],
     [arg |-> Some(ProvidedBin), file |-> Some(NoKeyBin)],
     [arg |-> Some(ProvidedBin), file |-> Some(OneKeyBin(7))],
     [arg |-> Some(ProvidedDic), file |-> Some(OneKeyDic(8))],
     [arg |-> Some(ProvidedTxt), file |-> Some(OneKeyBin(9))]}

\* the directory contents: the paths that have a file, with the file
MkFiles(entries) ==
    LET present == SelectSeq(entries, LAMBDA e : ~e[2].is_none)
    IN  [k \in 1..Len(present) |-> <<present[k][1], present[k][2].value>>]

InitDump ==
    /\ pc \in {"process_dump_file", "generate_json_for_bin"}
    /\ IF pc = "process_dump_file"
       THEN /\ dump_path = LibDump
            /\ CRYPTO_AVAILABLE \in BOOLEAN
            /\ \E dump \in {None, Some(ShortDump), Some(GoodDump)},
                  p \in ProvidedChoices,
                  c1 \in CompanionChoices(1), c2 \in CompanionChoices(2),
                  c3 \in CompanionChoices(3), c4 \in CompanionChoices(4),
                  c5 \in CompanionChoices(5), c6 \in CompanionChoices(6) :
                  /\ dump # Some(GoodDump) =>
                        /\ p.arg.is_none
                        /\ \A c \in {c1, c2, c3, c4, c5, c6} : c.is_none
                  /\ key_source = p.arg
                  /\ files = MkFiles(
                        <<<<LibDump, dump>>>>
                        \o (IF p.arg.is_none THEN << >>
                            ELSE <<<<p.arg.value, p.file>>>>)
                        \o [n \in 1..6 |->
                              <<CompanionPaths[n],
                                <<c1, c2, c3, c4, c5, c6>>[n]>>])
       ELSE /\ dump_path \in {LibDump, RootDump}
            /\ CRYPTO_AVAILABLE = Unset
            /\ key_source = Unset
            /\ \E script \in {None, Some(FileOf(<< >>))} :
                  files = MkFiles(<<<<dump_path, Some(GoodDump)>>,
                                    <<ParseScript, script>>>>)
    /\ run_result = Unset
    /\ ret = Unset
    /\ uid = Unset
    /\ keys = Unset
    /\ data = Unset
    /\ doc = Unset
    /\ blocks = Unset
    /\ sector_keys = Unset
    /\ access_conditions = Unset
    /\ sector = Unset
    /\ access_text = Unset
    /\ key_file = Unset
    /\ yaml_output = Unset
    /\ filename = Unset
    /\ parse = Unset
    /\ BatchIdle
    /\ ToolIdle

\* what the steps of the two functions leave alone
DumpFrame ==
    UNCHANGED <<data, doc, blocks, sector_keys, access_conditions, sector,
                access_text, CRYPTO_AVAILABLE, key_file, yaml_output, filename,
                parse, dump_path, key_source, batchvars, toolvars>>

\* process_dump_file, lines 262-269: the dump is read and its UID taken; a
\* dump that cannot be read or is shorter than 16 bytes ends the call
ReadDump ==
    /\ pc = "process_dump_file"
    /\ IF DictHas(files, dump_path)
          /\ ~get_uid_from_dump(DictGet(files, dump_path).bytes).is_none
       THEN /\ uid' = get_uid_from_dump(DictGet(files, dump_path).bytes).value
            /\ pc' = "find_keys"
            /\ ret' = ret
       ELSE /\ ret' = FALSE
            /\ pc' = "returned"
            /\ uid' = uid
    /\ UNCHANGED <<keys, files, run_result>>
    /\ DumpFrame

\* mutant: the call goes on to the decoder without keys
FindDumpKeys_mut ==
    /\ pc = "find_keys"
    /\ keys' = FindKeys(dump_path, key_source, uid, CRYPTO_AVAILABLE, files)
    /\ ret' = ret
    /\ pc' = "decode"
    /\ UNCHANGED <<uid, files, run_result>>
    /\ DumpFrame

\* process_dump_file, lines 271-327: the keys are looked for; none ends
\* the call
FindDumpKeys ==
    /\ pc = "find_keys"
    /\ keys' = FindKeys(dump_path, key_source, uid, CRYPTO_AVAILABLE, files)
    /\ IF Len(keys') = 0
       THEN ret' = FALSE /\ pc' = "returned"
       ELSE ret' = ret /\ pc' = "decode"
    /\ UNCHANGED <<uid, files, run_result>>
    /\ DumpFrame

\* process_dump_file, lines 329-348: decrypt_dump gives back the dump, the
\* decoder is run on it, and its record is written next to the dump
DecodeDump ==
    /\ pc = "decode"
    /\ \E r \in DecoderResults :
          LET json_data == parse_decrypted_data_to_json(r, dump_path)
          IN  /\ run_result' = r
              /\ IF json_data.is_none
                 THEN ret' = FALSE /\ files' = files
                 ELSE /\ ret' = TRUE
                      /\ files' = DictSet(files,
                            Replace(dump_path, DotBin, DecryptedJson),
                            JsonFileOf(json_data.value))
    /\ pc' = "returned"
    /\ UNCHANGED <<uid, keys>>
    /\ DumpFrame

\* generate_json_for_bin of local-json-generator.py: without the parse
\* script, on a non-zero status or on a timeout the call fails; otherwise the
\* output is parsed, the filename added and the record written
GenerateJsonForBin ==
    /\ pc = "generate_json_for_bin"
    /\ IF ~DictHas(files, ParseScript)
       THEN ret' = FALSE /\ UNCHANGED <<files, run_result>>
       ELSE \E r \in DecoderResults \cup {TimedOut} :
               /\ run_result' = r
               /\ IF r.timeout \/ r.returncode # 0
                  THEN ret' = FALSE /\ files' = files
                  ELSE /\ ret' = TRUE
                       /\ files' = DictSet(files,
                             Replace(dump_path, DotBin, DotJson),
                             JsonFileOf(DictSet(local_yaml_to_json(r.stdout),
                                                FILENAME, PyStr(dump_path))))
    /\ pc' = "returned_local"
    /\ UNCHANGED <<uid, keys>>
    /\ DumpFrame

NextDump == ReadDump \/ FindDumpKeys \/ DecodeDump \/ GenerateJsonForBin

SpecDump == InitDump /\ [][NextDump]_vars

(* ------------------------ properties: one dump -------------------------- *)
\* the keys a companion file gives when taken as a source by itself
CompanionKeys(n) ==
    IF ~DictHas(files, CompanionPaths[n]) THEN << >>
    ELSE IF n <= 3 THEN load_keys_from_bin(DictGet(files, CompanionPaths[n]))
    ELSE load_keys_from_dic(DictGet(files, CompanionPaths[n]))

\* the keys of the provided key source
ProvidedSourceKeys ==
    IF key_source.is_none \/ ~DictHas(files, key_source.value) THEN << >>
    ELSE IF key_source.value = ProvidedBin
         THEN load_keys_from_bin(DictGet(files, key_source.value))
    ELSE IF key_source.value = ProvidedDic
         THEN load_keys_from_dic(DictGet(files, key_source.value))
    ELSE << >>

\* the first non-empty key list of a sequence of key lists, else the empty one
FirstNonEmpty(lists) ==
    LET full == SelectSeq(lists, LAMBDA ks : Len(ks) > 0)
    IN  IF Len(full) = 0 THEN << >> ELSE full[1]

\* the first companion file that exists among numbers lo..hi, as a source
FirstExistingKeys(lo, hi) ==
    LET found == {n \in lo..hi : DictHas(files, CompanionPaths[n])}
    IN  IF found = {} THEN << >>
        ELSE CompanionKeys(CHOOSE n \in found : \A m \in found : n <= m)

\* the key search of process_dump_file has run (it follows the UID)
KeysResolved == pc = "decode" \/ (pc = "returned" /\ uid # Unset)

\* C13 (as stated): the keys used are those of the first source, in the
\* order provided source, companion .bin candidates, companion .dic
\* candidates, UID derivation, each candidate file counting as a source,
\* that yields a non-empty key list; a source that exists but yields no keys
\* never keeps a later source or a later candidate from being tried
C13_FirstNonEmptySource ==
    KeysResolved =>
        keys = FirstNonEmpty(<<ProvidedSourceKeys,
                               CompanionKeys(1), CompanionKeys(2),
                               CompanionKeys(3), CompanionKeys(4),
                               CompanionKeys(5), CompanionKeys(6),
                               derive_bambu_keys(CRYPTO_AVAILABLE, uid)>>)

\* C13 (amended): the sources are the provided key source, the first
\* companion .bin candidate that exists, the first companion .dic candidate
\* that exists, and UID derivation; the keys used are those of the first of
\* these four that yields a non-empty key list
C13_FirstNonEmptyStage ==
    KeysResolved =>
        keys = FirstNonEmpty(<<ProvidedSourceKeys,
                               FirstExistingKeys(1, 3),
                               FirstExistingKeys(4, 6),
                               derive_bambu_keys(CRYPTO_AVAILABLE, uid)>>)

\* the first .bin candidate exists without a key, the second holds a key,
\* and the keys used are those of a .dic candidate
C13_Witness ==
    /\ pc = "decode"
    /\ DictHas(files, CompanionPaths[1])
    /\ Len(CompanionKeys(1)) = 0
    /\ Len(CompanionKeys(2)) > 0
    /\ Len(CompanionKeys(5)) > 0
    /\ keys = CompanionKeys(5)

IsJsonFile(f) == "json" \in DOMAIN f

DecoderRan == pc \in {"returned", "returned_local"} /\ run_result # Unset

\* C17: when the decoder exits with a non-zero status or its output is empty
\* or only whitespace, the call (process_dump_file through
\* parse_decrypted_data_to_json, or generate_json_for_bin) reports failure
\* and no decoded-record file is written
C17_NoRecordWithoutReport ==
    (DecoderRan /\ (run_result.returncode # 0
                    \/ Len(Strip(run_result.stdout)) = 0))
    => /\ ret = FALSE
       /\ \A k \in 1..Len(files) : ~IsJsonFile(files[k][2])

\* C18: every decoded record written has a filename field given by the dump
\* path of the call alone (its base name in the decrypt script, the path
\* itself in the local generator), also when the report assigns a key
\* named filename
C18_FilenameFromPath ==
    pc \in {"returned", "returned_local"} =>
        \A k \in 1..Len(files) :
            IsJsonFile(files[k][2]) =>
                /\ DictHas(files[k][2].json, FILENAME)
                /\ DictGet(files[k][2].json, FILENAME) =
                      PyStr(IF pc = "returned_local" THEN dump_path
                            ELSE <<"a", ".", "b", "i", "n">>)

\* a record was written from a report that assigns the key filename
C18_Witness ==
    /\ pc = "returned"
    /\ ret = TRUE
    /\ run_result.stdout = FilenameReport
    /\ \E k \in 1..Len(files) : IsJsonFile(files[k][2])

(* ------------- generate-encrypted-json.py: batch generation ------------- *)
\* a JSON file whose top-level value is not an object (here a list)
JsonListFileOf(v) == [readable |-> TRUE, json_list |-> v]

IsJsonObjectFile(f) == "json" \in DOMAIN f
IsJsonListFile(f) == "json_list" \in DOMAIN f

\* the characters of the paths used, in code point order
PathChars == <<"-", ".", "/", "a", "b", "c", "d", "e", "i", "j", "k",
               "l", "m", "n", "o", "p", "s", "u", "y">>

Ord(c) == CHOOSE k \in 1..Len(PathChars) : PathChars[k] = c

\* s < t for Python strings
LexLess(s, t) ==
    \E k \in 1..(Len(t)) :
        /\ k <= Len(s) + 1
        /\ \A h \in 1..(k - 1) : s[h] = t[h]
        /\ k = Len(s) + 1 \/ Ord(s[k]) < Ord(t[k])

\* sorted(paths)
RECURSIVE Sorted(_)
Sorted(paths) ==
    IF paths = {} THEN << >>
    ELSE LET least == CHOOSE p \in paths :
                          \A q \in paths : p = q \/ LexLess(p, q)
         IN  <<least>> \o Sorted(paths \ {least})

DashDumpBin == <<"-", "d", "u", "m", "p", ".", "b", "i", "n">>
DashDumpJson == <<"-", "d", "u", "m", "p", ".", "j", "s", "o", "n">>
KeyWord == <<"k", "e", "y">>
NonceWord == <<"n", "o", "n", "c", "e">>

\* find_all_bin_files: the *.bin files below the directory whose path has
\* neither 'key' nor 'nonce' in it, sorted
find_all_bin_files(dir, fs) ==
    Sorted({fs[k][1] : k \in {j \in 1..Len(fs) :
                /\ StartsWith(fs[j][1], dir \o <<"/">>)
                /\ EndsWith(fs[j][1], DotBin)
                /\ ~Contains(Lower(fs[j][1]), KeyWord)
                /\ ~Contains(Lower(fs[j][1]), NonceWord)}})

\* the output file of a dump: "-dump.bin" and ".bin" both become "-dump.json"
JsonFileFor(bin_file) ==
    IF EndsWith(bin_file, DashDumpBin)
    THEN Replace(bin_file, DashDumpBin, DashDumpJson)
    ELSE Replace(bin_file, DotBin, DashDumpJson)

\* the test made on an existing output file when not forcing: json.load and
\* existing_data.get("Created") == "proxmark3" and "blocks" in existing_data.
\* A file that is not JSON raises JSONDecodeError, which is caught; a JSON
\* value without .get raises AttributeError, which is not
ExistingCheck(json_file, force_, fs) ==
    IF ~DictHas(fs, json_file) \/ force_ THEN "generate"
    ELSE LET f == DictGet(fs, json_file)
         IN  IF IsJsonListFile(f) THEN "AttributeError"
             ELSE IF ~IsJsonObjectFile(f) THEN "generate"
             ELSE IF /\ DictHas(f.json, "Created")
                     /\ DictGet(f.json, "Created") = "proxmark3"
                     /\ DictHas(f.json, "blocks")
                  THEN "present"
             ELSE "generate"

\* generate_encrypted_json_file(bin_file, force): the value returned (or the
\* exception raised) and the files afterwards
generate_encrypted_json_file(bin_file, force_, fs) ==
    LET json_file == JsonFileFor(bin_file)
        check == ExistingCheck(json_file, force_, fs)
        proxmark3_data == bin_to_proxmark3_json(
            IF DictHas(fs, bin_file) THEN DictGet(fs, bin_file) ELSE Unreadable)
    IN  IF check = "AttributeError" THEN [outcome |-> Raised(check), fs |-> fs]
        ELSE IF check = "present" THEN [outcome |-> Returned(TRUE), fs |-> fs]
        ELSE IF proxmark3_data.is_none
             THEN [outcome |-> Returned(FALSE), fs |-> fs]
        ELSE [outcome |-> Returned(TRUE),
              fs |-> DictSet(fs, json_file, JsonFileOf(proxmark3_data.value))]

\* the directory processed, the dumps in it and their possible output files
BatchDir == <<"l", "i", "b">>
BatchDumps == <<<<"l", "i", "b", "/", "a", "-", "d", "u", "m", "p", ".", "b", "i", "n">>, <<"l", "i", "b", "/", "a", ".", "b", "i", "n">>, <<"l", "i", "b", "/", "b", ".", "b", "i", "n">>>>
BatchKeyFile == <<"l", "i", "b", "/", "a", "-", "k", "e", "y", ".", "b", "i", "n">>
BatchOutputs == <<<<"l", "i", "b", "/", "a", "-", "d", "u", "m", "p", ".", "j", "s", "o", "n">>, <<"l", "i", "b", "/", "b", "-", "d", "u", "m", "p", ".", "j", "s", "o", "n">>>>

\* a dump is absent, a valid 1024-byte dump of its own, or 16 stray bytes
BatchDumpChoices(n) ==
    {None, Some(FileOf(MkDump(1024, 1, n))), Some(FileOf(MkDump(16, 1, n)))}

\* an output file is absent, a Proxmark3 document, an object that is not
\* one, not JSON at all, or JSON that is not an object
BatchOutputChoices ==
    {None,
     Some(JsonFileOf(bin_to_proxmark3_json(FileOf(MkDump(1024, 7, 0))).value)),
     Some(JsonFileOf(<<<<"Created", "proxmark3">>>>)),
     Some(TextFileOf(<<"{">>)),
     Some(JsonListFileOf(<< >>))}

InitBatch ==
    /\ pc = "main"
    /\ force \in BOOLEAN
    /\ \E d1 \in BatchDumpChoices(1), d2 \in BatchDumpChoices(2),
          d3 \in BatchDumpChoices(3), kf \in {None, Some(OneKeyBin(1))},
          o1 \in BatchOutputChoices, o2 \in BatchOutputChoices :
          files = MkFiles(<<<<BatchDumps[1], d1>>, <<BatchDumps[2], d2>>,
                            <<BatchDumps[3], d3>>, <<BatchKeyFile, kf>>,
                            <<BatchOutputs[1], o1>>, <<BatchOutputs[2], o2>>>>)
    /\ bin_files = Unset
    /\ position = Unset
    /\ generated_count = Unset
    /\ failed_count = Unset
    /\ skipped_count = Unset
    /\ log = << >>
    /\ ToolIdle
    /\ data = Unset
    /\ doc = Unset
    /\ blocks = Unset
    /\ sector_keys = Unset
    /\ access_conditions = Unset
    /\ sector = Unset
    /\ access_text = Unset
    /\ CRYPTO_AVAILABLE = Unset
    /\ uid = Unset
    /\ keys = Unset
    /\ key_file = Unset
    /\ yaml_output = Unset
    /\ filename = Unset
    /\ parse = Unset
    /\ dump_path = Unset
    /\ key_source = Unset
    /\ run_result = Unset
    /\ ret = Unset

BatchFrame ==
    UNCHANGED <<data, doc, blocks, sector_keys, access_conditions, sector,
                access_text, CRYPTO_AVAILABLE, uid, keys, key_file, yaml_output,
                filename, parse, dump_path, key_source, run_result, ret, force,
                toolvars>>

\* main, lines 255-273: the dumps are listed; with none the run ends
ListBinFiles ==
    /\ pc = "main"
    /\ bin_files' = find_all_bin_files(BatchDir, files)
    /\ position' = 0
    /\ generated_count' = 0
    /\ failed_count' = 0
    /\ skipped_count' = 0
    /\ pc' = IF Len(bin_files') = 0 THEN "exit_0" ELSE "loop"
    /\ UNCHANGED <<files, log>>
    /\ BatchFrame

\* main, lines 275-296: one pass through the loop body for the next dump
\* (log records which output file the pass opened or wrote)
GenerateNext ==
    /\ pc = "loop"
    /\ position < Len(bin_files)
    /\ LET bin_file == bin_files[position + 1]
           json_file == JsonFileFor(bin_file)
           check == ExistingCheck(json_file, force, files)
           call == generate_encrypted_json_file(bin_file, force, files)
           opened == DictHas(files, json_file) /\ ~force
       IN  IF check = "AttributeError"
           THEN /\ pc' = "traceback"
                /\ log' = Append(log, [bin_file |-> bin_file,
                              json_file |-> json_file, opened |-> TRUE,
                              written |-> FALSE])
                /\ UNCHANGED <<files, position, generated_count,
                               failed_count, skipped_count>>
           ELSE IF check = "present"
           THEN /\ skipped_count' = skipped_count + 1
                /\ position' = position + 1
                /\ log' = Append(log, [bin_file |-> bin_file,
                              json_file |-> json_file, opened |-> TRUE,
                              written |-> FALSE])
                /\ UNCHANGED <<pc, files, generated_count, failed_count>>
           ELSE /\ files' = call.fs
                /\ IF call.outcome.value
                   THEN /\ generated_count' = generated_count + 1
                        /\ failed_count' = failed_count
                   ELSE /\ failed_count' = failed_count + 1
                        /\ generated_count' = generated_count
                /\ position' = position + 1
                /\ log' = Append(log, [bin_file |-> bin_file,
                              json_file |-> json_file, opened |-> opened,
                              written |-> call.fs # files])
                /\ UNCHANGED <<pc, skipped_count>>
    /\ UNCHANGED bin_files
    /\ BatchFrame

\* main, lines 298-315: the summary; sys.exit(1) when a dump failed
Summarise ==
    /\ pc = "loop"
    /\ position = Len(bin_files)
    /\ pc' = IF failed_count > 0 THEN "exit_1" ELSE "exit_0"
    /\ UNCHANGED <<files, bin_files, position, generated_count, failed_count,
                   skipped_count, log>>
    /\ BatchFrame

NextBatch == ListBinFiles \/ GenerateNext \/ Summarise

SpecBatch == InitBatch /\ [][NextBatch]_vars

(* ------------------------- properties: batch ---------------------------- *)
\* the run of main is over
BatchOver == pc \in {"exit_0", "exit_1", "traceback"}

\* C19: in batch mode a failure of one file never stops the loop: every
\* selected file is attempted (or counted as skipped) exactly once, in list
\* order, whatever happened to the files before it, and at the end the
\* generated, failed and skipped counts add up to the number of selected
\* files
C19_EveryFileCounted ==
    BatchOver =>
        /\ [k \in 1..Len(log) |-> log[k].bin_file] = bin_files
        /\ generated_count + failed_count + skipped_count = Len(bin_files)

\* C20: no two dumps of a batch read or write the same output file
C20_DisjointOutputs ==
    \A h \in 1..Len(log) : \A k \in 1..Len(log) :
        (/\ h # k
         /\ log[h].opened \/ log[h].written
         /\ log[k].opened \/ log[k].written)
        => log[h].json_file # log[k].json_file

(* ------------------- properties: the two parsers agree ------------------ *)
\* a record without its filename field
WithoutFilename(d) == SelectSeq(d, LAMBDA kv : kv[1] # FILENAME)

\* a stored value as Python compares it: mappings compare without order
ValueOf(v) ==
    IF v.type = "dict" THEN [type |-> "dict", val |-> {v.val[k] : k \in 1..Len(v.val)}]
    ELSE [type |-> v.type, val |-> {v.val}]

\* dict equality: the same keys with equal values
SameRecord(a, b) ==
    {<<a[k][1], ValueOf(a[k][2])>> : k \in 1..Len(a)}
        = {<<b[k][1], ValueOf(b[k][2])>> : k \in 1..Len(b)}

\* C21: for every report text the record returned by
\* RFIDDecryptor.yaml_to_json and the record returned by the local
\* generator's yaml_to_json are equal once the filename field is disregarded
C21_ParsersAgree ==
    /\ pc = "parsed" =>
          SameRecord(WithoutFilename(data),
                     WithoutFilename(local_yaml_to_json(yaml_output)))
    /\ pc = "parsed_local" =>
          SameRecord(WithoutFilename(data),
                     WithoutFilename(yaml_to_json(yaml_output, DumpPath)))

\* the two parsers agree on reports made only of "- <key>: <value>" lines,
\* blank lines and comments
PlainReportLines ==
    {<<"-", " ", "t", "y", "p", "e", ":", " ", "P", "L", "A">>,
     <<"-", " ", "w", "e", "i", "g", "h", "t", ":", " ", "2", "5", "0">>,
     <<"-", " ", "o", "k", ":", " ", "T", "R", "U", "E">>,
     <<>>,
     <<"#", " ", "n", "o", "t", "e">>}

ParsersAgreeOnPlainReports ==
    (\A k \in 1..Len(parse.lines) : parse.lines[k] \in PlainReportLines)
        => C21_ParsersAgree

(* ------------------ local-json-generator.py: main ----------------------- *)
CREATED == <<"C", "r", "e", "a", "t", "e", "d">>
BLOCKS == <<"b", "l", "o", "c", "k", "s">>
FILETYPE == <<"F", "i", "l", "e", "T", "y", "p", "e">>
Proxmark3Text == <<"p", "r", "o", "x", "m", "a", "r", "k", "3">>
MfcV2Text == <<"m", "f", "c", " ", "v", "2">>

\* is_encrypted_json(json_path): a missing file and a file that is not JSON
\* give False (both exceptions are caught); a JSON value without .get
\* raises AttributeError, which is not caught
is_encrypted_json(json_path, fs) ==
    IF ~DictHas(fs, json_path) THEN Returned(FALSE)
    ELSE LET f == DictGet(fs, json_path)
         IN  IF IsJsonListFile(f) THEN Raised("AttributeError")
             ELSE IF ~IsJsonObjectFile(f) THEN Returned(FALSE)
             ELSE Returned(
                    \/ /\ DictHas(f.json, CREATED)
                       /\ DictGet(f.json, CREATED) = PyStr(Proxmark3Text)
                    \/ DictHas(f.json, BLOCKS)
                    \/ /\ DictHas(f.json, FILETYPE)
                       /\ DictGet(f.json, FILETYPE) = PyStr(MfcV2Text))

\* the paths glob.glob(directory + "/**/*.bin") gives that have no 'key' in
\* them
LocalBinFiles(directory, fs) ==
    {fs[k][1] : k \in {j \in 1..Len(fs) :
        /\ StartsWith(fs[j][1], directory \o <<"/">>)
        /\ EndsWith(fs[j][1], DotBin)
        /\ ~Contains(Lower(fs[j][1]), KeyWord)}}

\* the orders in which glob may list a set of paths
Orders(paths) ==
    {s \in [1..Cardinality(paths) -> paths] :
        \A h, k \in 1..Cardinality(paths) : h # k => s[h] # s[k]}

\* the test of find_missing_json_files for one dump: selected when it has
\* no .json file, or on force when that file is not an encrypted one
NeedsJson(bin_file, force_regenerate, fs) ==
    LET json_file == Replace(bin_file, DotBin, DotJson)
    IN  IF ~DictHas(fs, json_file) THEN Returned(TRUE)
        ELSE IF ~force_regenerate THEN Returned(FALSE)
        ELSE LET e == is_encrypted_json(json_file, fs)
             IN  IF e.raised THEN e ELSE Returned(~e.value)

\* find_missing_json_files(directory, force_regenerate) with the dumps
\* listed in the order bin_files_
find_missing_json_files(bin_files_, force_regenerate, fs) ==
    IF \E k \in 1..Len(bin_files_) :
            NeedsJson(bin_files_[k], force_regenerate, fs).raised
    THEN Raised("AttributeError")
    ELSE Returned(SelectSeq(bin_files_,
            LAMBDA b : NeedsJson(b, force_regenerate, fs).value))

\* generate_json_for_bin(bin_file, parse_script) when the decoder ends with
\* r: the value returned and the files afterwards
generate_json_for_bin(bin_file, parse_script, r, fs) ==
    IF ~DictHas(fs, parse_script) THEN [ret |-> FALSE, fs |-> fs]
    ELSE IF r.timeout \/ r.returncode # 0 THEN [ret |-> FALSE, fs |-> fs]
    ELSE [ret |-> TRUE,
          fs |-> DictSet(fs, Replace(bin_file, DotBin, DotJson),
                    JsonFileOf(DictSet(local_yaml_to_json(r.stdout),
                                       FILENAME, PyStr(bin_file))))]

\* the directory processed (the current one, so that the decoder finds the
\* parse script), one that does not exist, and the files of the directory
LocalDir == <<".">>
NoDir == <<"n", "o", "d", "i", "r">>
DumpDump == <<".", "/", "a", "-", "d", "u", "m", "p", ".", "b", "i", "n">>
PlainDump == <<".", "/", "a", ".", "b", "i", "n">>
OtherDump == <<".", "/", "c", ".", "b", "i", "n">>
LocalKeyFile == <<".", "/", "a", "-", "k", "e", "y", ".", "b", "i", "n">>
LocalDumps == <<DumpDump, PlainDump>>
LocalParseScript == PathJoin(LocalDir, ParseScript)

\* a .json file next to a dump is absent, an encrypted document by each of
\* the three tests of is_encrypted_json, a decoded record, not JSON at all,
\* or JSON that is not an object
LocalJsonChoices ==
    {None,
     Some(JsonFileOf(<<<<CREATED, PyStr(Proxmark3Text)>>,
                       <<FILETYPE, PyStr(MfcV2Text)>>,
                       <<BLOCKS, PyDict(<< >>)>>>>)),
     Some(JsonFileOf(<<<<CREATED, PyStr(Proxmark3Text)>>>>)),
     Some(JsonFileOf(<<<<BLOCKS, PyDict(<< >>)>>>>)),
     Some(JsonFileOf(<<<<FILETYPE, PyStr(MfcV2Text)>>>>)),
     Some(JsonFileOf(<<<<FILENAME, PyStr(PlainDump)>>>>)),
     Some(TextFileOf(<<"{">>)),
     Some(JsonListFileOf(<< >>))}

InitLocal ==
    /\ pc = "local_main"
    /\ \E directory \in {LocalDir, NoDir}, force_ \in BOOLEAN,
          dry_run \in BOOLEAN,
          specific_file \in {None, Some(DumpDump), Some(PlainDump),
                             Some(OtherDump)} :
          args = [directory |-> directory, force |-> force_,
                  parse_script |-> ParseScript,
                  specific_file |-> specific_file, dry_run |-> dry_run]
    /\ \E d1 \in {None, Some(GoodDump)}, d2 \in {None, Some(GoodDump)},
          kf \in {None, Some(OneKeyBin(1))},
          script \in {None, Some(FileOf(<< >>))},
          j1 \in LocalJsonChoices, j2 \in LocalJsonChoices :
          files = MkFiles(<<<<LocalDumps[1], d1>>, <<LocalDumps[2], d2>>,
                            <<LocalKeyFile, kf>>,
                            <<LocalParseScript, script>>,
                            <<Replace(LocalDumps[1], DotBin, DotJson), j1>>,
                            <<Replace(LocalDumps[2], DotBin, DotJson), j2>>>>)
    /\ files_before = files
    /\ missing_files = Unset
    /\ errors = Unset
    /\ key_bin_path = Unset
    /\ position = Unset
    /\ generated_count = Unset
    /\ failed_count = Unset
    /\ run_result = Unset
    /\ force = Unset
    /\ bin_files = Unset
    /\ skipped_count = Unset
    /\ log = Unset
    /\ data = Unset
    /\ doc = Unset
    /\ blocks = Unset
    /\ sector_keys = Unset
    /\ access_conditions = Unset
    /\ sector = Unset
    /\ access_text = Unset
    /\ CRYPTO_AVAILABLE = Unset
    /\ uid = Unset
    /\ keys = Unset
    /\ key_file = Unset
    /\ yaml_output = Unset
    /\ filename = Unset
    /\ parse = Unset
    /\ dump_path = Unset
    /\ key_source = Unset
    /\ ret = Unset

LocalFrame ==
    UNCHANGED <<data, doc, blocks, sector_keys, access_conditions, sector,
                access_text, CRYPTO_AVAILABLE, uid, keys, key_file, yaml_output,
                filename, parse, dump_path, key_source, ret, force, bin_files,
                skipped_count, log, args, files_before, errors, key_bin_path>>

\* the parse script path of main, lines 217-219
ParseScriptPath == PathJoin(args.directory, args.parse_script)

\* main, lines 212-224: without the directory or the parse script the run
\* ends with status 1
LocalCheckArguments ==
    /\ pc = "local_main"
    /\ pc' = IF args.directory # LocalDir \/ ~DictHas(files, ParseScriptPath)
             THEN "exit_1"
             ELSE IF ~args.specific_file.is_none THEN "specific_file"
             ELSE "find_missing"
    /\ UNCHANGED <<files, missing_files, position, generated_count,
                   failed_count, run_result>>
    /\ LocalFrame

\* main, lines 232-246: the one named file is generated, unless it does not
\* exist or this is a dry run
LocalSpecificFile ==
    /\ pc = "specific_file"
    /\ IF ~DictHas(files, args.specific_file.value)
       THEN pc' = "exit_1" /\ UNCHANGED <<files, run_result>>
       ELSE IF args.dry_run
       THEN pc' = "exit_0" /\ UNCHANGED <<files, run_result>>
       ELSE \E r \in DecoderResults \cup {TimedOut} :
               LET call == generate_json_for_bin(args.specific_file.value,
                                                 ParseScriptPath, r, files)
               IN  /\ run_result' = r
                   /\ files' = call.fs
                   /\ pc' = IF call.ret THEN "exit_0" ELSE "exit_1"
    /\ UNCHANGED <<missing_files, position, generated_count, failed_count>>
    /\ LocalFrame

\* main, lines 249-272: the dumps needing a record are found; with none, or
\* on a dry run, the run ends
LocalFindMissing ==
    /\ pc = "find_missing"
    /\ \E order \in Orders(LocalBinFiles(args.directory, files)) :
          LET found == find_missing_json_files(order, args.force, files)
          IN  IF found.raised
              THEN /\ pc' = "traceback"
                   /\ UNCHANGED <<missing_files, position, generated_count,
                                  failed_count>>
              ELSE /\ missing_files' = found.value
                   /\ IF Len(found.value) = 0 \/ args.dry_run
                      THEN /\ pc' = "exit_0"
                           /\ UNCHANGED <<position, generated_count,
                                          failed_count>>
                      ELSE /\ pc' = "local_loop"
                           /\ position' = 0
                           /\ generated_count' = 0
                           /\ failed_count' = 0
    /\ UNCHANGED <<files, run_result>>
    /\ LocalFrame

\* main, lines 274-278: one pass through the loop body
LocalGenerateNext ==
    /\ pc = "local_loop"
    /\ position < Len(missing_files)
    /\ \E r \in DecoderResults \cup {TimedOut} :
          LET call == generate_json_for_bin(missing_files[position + 1],
                                            ParseScriptPath, r, files)
          IN  /\ run_result' = r
              /\ files' = call.fs
              /\ IF call.ret
                 THEN /\ generated_count' = generated_count + 1
                      /\ failed_count' = failed_count
                 ELSE /\ failed_count' = failed_count + 1
                      /\ generated_count' = generated_count
    /\ position' = position + 1
    /\ UNCHANGED <<pc, missing_files>>
    /\ LocalFrame

\* main, lines 280-295: the summary; a failed file does not change the
\* status
LocalSummarise ==
    /\ pc = "local_loop"
    /\ position = Len(missing_files)
    /\ pc' = "exit_0"
    /\ UNCHANGED <<files, missing_files, position, generated_count,
                   failed_count, run_result>>
    /\ LocalFrame

NextLocal ==
    \/ LocalCheckArguments
    \/ LocalSpecificFile
    \/ LocalFindMissing
    \/ LocalGenerateNext
    \/ LocalSummarise

SpecLocal == InitLocal /\ [][NextLocal]_vars

(* ------------------- properties: local generator ------------------------ *)
\* the run of main is over
LocalOver == pc \in {"exit_0", "exit_1", "traceback"}

\* the files that were encrypted (Proxmark3-format) .json files when the run
\* started
EncryptedBefore ==
    {files_before[k][1] : k \in {j \in 1..Len(files_before) :
        /\ EndsWith(files_before[j][1], DotJson)
        /\ is_encrypted_json(files_before[j][1], files_before)
              = Returned(TRUE)}}

\* C22: a .json file that exists before a run of the local generator and is
\* in Proxmark3 format has the same content after the run, in batch mode
\* with or without --force and in --specific-file mode
C22_EncryptedJsonKept ==
    LocalOver =>
        \A path \in EncryptedBefore :
            /\ DictHas(files, path)
            /\ DictGet(files, path) = DictGet(files_before, path)

\* the same, for runs without --specific-file
EncryptedJsonKeptInBatchMode ==
    args.specific_file.is_none => C22_EncryptedJsonKept

(* --------------------- properties: no keys available -------------------- *)
\* every key source of process_dump_file yields no keys: the provided
\* source, the companion .bin file, the companion .dic file and the
\* derivation from the UID (which yields none without the primitive)
KeySourcesExhausted ==
    /\ Len(ProvidedSourceKeys) = 0
    /\ Len(FirstExistingKeys(1, 3)) = 0
    /\ Len(FirstExistingKeys(4, 6)) = 0
    /\ Len(derive_bambu_keys(CRYPTO_AVAILABLE, uid)) = 0

\* the external decoder has been run
DecoderInvoked == run_result # Unset

\* C23: when every key source is exhausted process_dump_file returns
\* failure without running the decoder and without writing a
\* "-decrypted.json" file; a missing derivation primitive is not a failure
\* by itself: when another source supplied keys the call goes on to the
\* decoder
C23_NoKeysFailsTheFile ==
    KeysResolved =>
        /\ KeySourcesExhausted =>
              /\ pc = "returned"
              /\ ret = FALSE
              /\ ~DecoderInvoked
              /\ ~DictHas(files, Replace(dump_path, DotBin, DecryptedJson))
              /\ \A k \in 1..Len(files) : ~IsJsonFile(files[k][2])
        /\ (CRYPTO_AVAILABLE = FALSE /\ ~KeySourcesExhausted) =>
              /\ Len(keys) > 0
              /\ pc = "decode" \/ DecoderInvoked

\* the primitive is missing, a companion file exists but holds no key, and
\* the call has returned failure
C23_Witness ==
    /\ pc = "returned"
    /\ uid # Unset
    /\ CRYPTO_AVAILABLE = FALSE
    /\ DictHas(files, CompanionPaths[1])
    /\ KeySourcesExhausted
    /\ ret = FALSE

\* the primitive is missing, a companion .dic file supplied the keys, and the
\* record was written
KeysWithoutPrimitive ==
    /\ pc = "returned"
    /\ uid # Unset
    /\ CRYPTO_AVAILABLE = FALSE
    /\ Len(FirstExistingKeys(4, 6)) > 0
    /\ ret = TRUE

(* ------------------ key-to-dic-converter.py: one key file --------------- *)
\* mutant: all-zero chunks are written too
convert_key_bin_to_dic_mut(path, fs) ==
    IF ~DictHas(fs, path) \/ ~DictGet(fs, path).readable
    THEN [ret |-> FALSE, fs |-> fs]
    ELSE LET key_data == DictGet(fs, path).bytes
             chunks == [j \in 1..((Len(key_data) + 5) \div 6) |->
                           Slice(key_data, (j - 1) * 6, j * 6)]
             hexes == [j \in 1..Len(chunks) |-> Upper(Hex(chunks[j]))]
             keys_ == SelectSeq(hexes, LAMBDA hex_key : Len(hex_key) = 12)
         IN  IF Len(keys_) = 0 THEN [ret |-> FALSE, fs |-> fs]
             ELSE [ret |-> TRUE,
                   fs |-> DictSet(fs, Replace(path, DotBin, DotDic),
                                  TextFileOf(JoinLines(keys_)))]

\* convert_key_bin_to_dic(key_bin_path): the value returned and the files
\* afterwards. Chunks of six zero bytes are skipped, the others are written
\* as upper-case hex when that gives 12 characters, one per line; a file
\* that cannot be read, or no key at all, gives False
convert_key_bin_to_dic(path, fs) ==
    IF ~DictHas(fs, path) \/ ~DictGet(fs, path).readable
    THEN [ret |-> FALSE, fs |-> fs]
    ELSE LET key_data == DictGet(fs, path).bytes
             chunks == [j \in 1..((Len(key_data) + 5) \div 6) |->
                           Slice(key_data, (j - 1) * 6, j * 6)]
             kept == SelectSeq(chunks,
                        LAMBDA key_bytes : key_bytes # <<0, 0, 0, 0, 0, 0>>)
             hexes == [j \in 1..Len(kept) |-> Upper(Hex(kept[j]))]
             keys_ == SelectSeq(hexes, LAMBDA hex_key : Len(hex_key) = 12)
         IN  IF Len(keys_) = 0 THEN [ret |-> FALSE, fs |-> fs]
             ELSE [ret |-> TRUE,
                   fs |-> DictSet(fs, Replace(path, DotBin, DotDic),
                                  TextFileOf(JoinLines(keys_)))]

\* the key file converted and the dictionary written for it
KeyBinPath == BatchKeyFile
KeyDicPath == Replace(KeyBinPath, DotBin, DotDic)

InitConvert ==
    /\ pc = "convert_key_bin_to_dic"
    /\ key_bin_path = KeyBinPath
    /\ \E kf \in {None} \cup {Some(f) : f \in KeyBinFiles},
          old \in {None, Some(OneKeyDic(1))} :
          files = MkFiles(<<<<KeyBinPath, kf>>, <<KeyDicPath, old>>>>)
    /\ files_before = files
    /\ ret = Unset
    /\ keys = Unset
    /\ args = Unset
    /\ missing_files = Unset
    /\ errors = Unset
    /\ data = Unset
    /\ doc = Unset
    /\ blocks = Unset
    /\ sector_keys = Unset
    /\ access_conditions = Unset
    /\ sector = Unset
    /\ access_text = Unset
    /\ CRYPTO_AVAILABLE = Unset
    /\ uid = Unset
    /\ key_file = Unset
    /\ yaml_output = Unset
    /\ filename = Unset
    /\ parse = Unset
    /\ dump_path = Unset
    /\ key_source = Unset
    /\ run_result = Unset
    /\ BatchIdle

ConvertFrame ==
    UNCHANGED <<data, doc, blocks, sector_keys, access_conditions, sector,
                access_text, CRYPTO_AVAILABLE, uid, key_file, yaml_output,
                filename, parse, dump_path, key_source, run_result, batchvars,
                args, missing_files, files_before, errors, key_bin_path>>

\* convert_key_bin_to_dic(key_bin_path)
ConvertKeyBinToDic ==
    /\ pc = "convert_key_bin_to_dic"
    /\ ret' = convert_key_bin_to_dic(key_bin_path, files).ret
    /\ files' = convert_key_bin_to_dic(key_bin_path, files).fs
    /\ pc' = "converted"
    /\ UNCHANGED keys
    /\ ConvertFrame

\* RFIDDecryptor.load_keys_from_dic on the dictionary next to the key file
LoadConvertedDic ==
    /\ pc = "converted"
    /\ keys' = load_keys_from_dic(
                  IF DictHas(files, KeyDicPath) THEN DictGet(files, KeyDicPath)
                  ELSE Unreadable)
    /\ pc' = "read_back"
    /\ UNCHANGED <<ret, files>>
    /\ ConvertFrame

NextConvert == ConvertKeyBinToDic \/ LoadConvertedDic

SpecConvert == InitConvert /\ [][NextConvert]_vars

(* ------------------- properties: key file conversion -------------------- *)
\* the complete 6-byte chunks of the key file that are not all zero
NonZeroChunksBefore ==
    IF ~DictHas(files_before, KeyBinPath)
       \/ ~DictGet(files_before, KeyBinPath).readable
    THEN << >>
    ELSE SelectSeq(KeyChunks(DictGet(files_before, KeyBinPath).bytes),
                   LAMBDA c : Len(c) = 6 /\ ~IsZeroChunk(c))

\* C24: convert_key_bin_to_dic writes one line of 12 upper-case hex characters
\* per complete 6-byte chunk of the key file that is not all zero, in input
\* order; load_keys_from_dic on that file gives back exactly those chunks in
\* that order; with no such chunk the conversion returns failure and writes
\* nothing
C24_KeyFileRoundTrip ==
    pc \in {"converted", "read_back"} =>
        IF Len(NonZeroChunksBefore) = 0
        THEN ret = FALSE /\ files = files_before
        ELSE /\ ret = TRUE
             /\ DictHas(files, KeyDicPath)
             /\ DictGet(files, KeyDicPath) =
                   TextFileOf(JoinLines([k \in 1..Len(NonZeroChunksBefore) |->
                                 ExpectedHex(NonZeroChunksBefore[k])]))
             /\ pc = "read_back" =>
                   keys = [k \in 1..Len(NonZeroChunksBefore) |->
                              Bytes(NonZeroChunksBefore[k])]

\* a key file with a zero chunk, a key after it and an incomplete chunk at
\* its end was converted and read back as that one key
C24_Witness ==
    /\ pc = "read_back"
    /\ ret = TRUE
    /\ Len(DictGet(files_before, KeyBinPath).bytes) % 6 # 0
    /\ IsZeroChunk(KeyChunks(DictGet(files_before, KeyBinPath).bytes)[1])
    /\ Len(NonZeroChunksBefore) = 1
    /\ keys = <<Bytes(NonZeroChunksBefore[1])>>

(* -------------------- properties: parser termination -------------------- *)
\* before a parser is called: no report, and an empty record
InitCall ==
    /\ pc = "call"
    /\ yaml_output = Unset
    /\ filename = Unset
    /\ parse = Unset
    /\ data = << >>
    /\ doc = Unset
    /\ blocks = Unset
    /\ sector_keys = Unset
    /\ access_conditions = Unset
    /\ sector = Unset
    /\ access_text = Unset
    /\ CRYPTO_AVAILABLE = Unset
    /\ uid = Unset
    /\ keys = Unset
    /\ key_file = Unset
    /\ DumpIdle
    /\ BatchIdle
    /\ ToolIdle

\* one of the two parsers is called with a report
CallParser ==
    /\ pc = "call"
    /\ pc' \in {"RFIDDecryptor.yaml_to_json", "yaml_to_json"}
    /\ yaml_output' \in Reports
    /\ filename' = IF pc' = "yaml_to_json" THEN Unset ELSE DumpPath
    /\ parse' = ParserStart(yaml_output')
    /\ UNCHANGED <<data, doc, blocks, sector_keys, access_conditions,
                   sector, access_text, CRYPTO_AVAILABLE, uid, keys, key_file,
                   dump_path, key_source, files, run_result, ret, batchvars,
                   toolvars>>

NextCall ==
    CallParser \/ ParseStep \/ ParseReturn \/ LocalParseStep \/ LocalParseReturn

\* a parser loop has lines left, or is inside a temperature block
LoopRunning ==
    pc \in {"RFIDDecryptor.yaml_to_json", "yaml_to_json"} /\ ~ParserDone(parse)

\* weak fairness of the loop step (the step that keeps pc and changes the
\* parser state), with its
\* enabling condition written out: a running loop can always take a step
\* (RankDecreases below), so the loop is not always running unless it
\* keeps taking steps
LoopFairness == ([]<>(~LoopRunning)) \/ ([]<><<pc' = pc>>_parse)

\* a parser loop is over and the record not yet returned
ReturnPending ==
    pc \in {"RFIDDecryptor.yaml_to_json", "yaml_to_json"} /\ ParserDone(parse)

\* weak fairness of the return step, written in the same way
ReturnFairness ==
    ([]<>(~ReturnPending)) \/ ([]<><<pc' \in {"parsed", "parsed_local"}>>_pc)

\* the interpreter runs the program on: the call, the loop steps and the
\* return happen when they can
SpecTermination ==
    /\ InitCall
    /\ [][NextCall]_vars
    /\ WF_pc(CallParser)
    /\ LoopFairness
    /\ ReturnFairness

\* a parser has returned its record
ParserReturned == pc \in {"parsed", "parsed_local"}

\* what is left to do: two for every line not yet consumed, one more
\* inside a temperature block
Rank(p) ==
    2 * (Len(p.lines) - p.i) + (IF p.state = "InTemperatureBlock" THEN 1 ELSE 0)

\* the next step of the running loop leaves less to do
RankDecreases ==
    /\ (pc = "RFIDDecryptor.yaml_to_json" /\ ~ParserDone(parse))
          => /\ Rank(yaml_to_json_step(parse)) < Rank(parse)
             /\ Rank(yaml_to_json_step(parse)) >= 0
    /\ (pc = "yaml_to_json" /\ ~ParserDone(parse))
          => /\ Rank(local_yaml_to_json_step(parse)) < Rank(parse)
             /\ Rank(local_yaml_to_json_step(parse)) >= 0

\* C25: both parsers terminate. Every step of the loops either consumes the
\* line at the index and moves the index forward by one, or is the test
\* that ends a temperature block, which leaves index and record alone; a
\* pass of the outer loop always moves the index (entering a block included,
\* since the header is consumed before the block starts); so no line is
\* consumed twice, and the parser returns
C25_ParserTerminates ==
    /\ [][(pc \in {"RFIDDecryptor.yaml_to_json", "yaml_to_json"} /\ pc' = pc)
          => /\ \/ /\ parse.i < Len(parse.lines)
                   /\ parse'.i = parse.i + 1
                \/ /\ parse.state = "InTemperatureBlock"
                   /\ parse'.state = "TopLevel"
                   /\ parse'.i = parse.i
                   /\ parse'.data = parse.data
             /\ parse.state = "TopLevel" => parse'.i = parse.i + 1
             /\ parse'.lines = parse.lines]_<<pc, parse>>
    /\ []RankDecreases
    /\ <>ParserReturned

\* a parser has returned after a temperature block that ended at a line
\* which was then read again at top level
C25_Witness ==
    /\ pc = "parsed"
    /\ parse.i = Len(parse.lines)
    /\ Len(parse.lines) = 3
    /\ IsTemperaturesHeader(parse.lines[1])
    /\ StartsWith(parse.lines[2], TempPrefix)
    /\ ~StartsWith(parse.lines[3], TempPrefix)
    /\ DictHas(data, TEMPERATURES)
    /\ Len(DictGet(data, TEMPERATURES).val) = 1
    /\ Len(data) = 3

(* ------------------- sectors and blocks of a document ------------------- *)
\* the 'block<N>' entries of the AccessConditionsText of entry i of
\* SectorKeys sk: every entry after UserData
SectorText(sk, i) == DictGet(sk[i][2], "AccessConditionsText")
BlockEntryIndices(sk, i) == 2..Len(SectorText(sk, i))

\* the <<sector entry, text entry>> positions of sk that name block b
NamedAt(sk, b) ==
    {p \in UNION {{<<i, j>> : j \in BlockEntryIndices(sk, i)} : i \in 1..Len(sk)} :
        SectorText(sk, p[1])[p[2]][1] = BlockKey(b)}

\* C26: in the document of a dump of 64, 72 or 256 blocks the sectors of
\* SectorKeys partition the blocks: every block index 0..n-1 is named as
\* 'block<N>' in the AccessConditionsText of exactly one sector, no text
\* names a block index >= n, and exactly one block of every sector
\* carries the trailer text.
C26_SectorsPartitionBlocks ==
    HasDoc =>
        LET n == Len(DocBlocks)
            sk == DocSectorKeys
        IN  /\ n \in {64, 72, 256}
            /\ \A b \in 0..(n - 1) : Cardinality(NamedAt(sk, b)) = 1
            /\ \A i \in 1..Len(sk) : \A j \in BlockEntryIndices(sk, i) :
                  \E b \in 0..(n - 1) : SectorText(sk, i)[j][1] = BlockKey(b)
            /\ \A i \in 1..Len(sk) :
                  Cardinality({j \in BlockEntryIndices(sk, i) :
                                 SectorText(sk, i)[j][2] = TrailerText}) = 1

C26_Witness ==
    /\ HasDoc
    /\ Len(DocBlocks) = 256
    /\ Len(DocSectorKeys) = 40
    /\ SectorText(DocSectorKeys, 40)[17] = <<BlockKey(255), TrailerText>>
    /\ SectorText(DocSectorKeys, 33)[2] = <<BlockKey(128), DataText>>

(* ------------------------- validate-rfid-json.py ------------------------ *)
UID == <<"u", "i", "d">>
UidLinePrefix == <<"-", " ", "u", "i", "d", ":", " ">>

\* self.required_fields and self.temperature_fields
required_fields ==
    {<<"u", "i", "d">>,
     <<"f", "i", "l", "a", "m", "e", "n", "t", "_", "t", "y", "p", "e">>,
     <<"f", "i", "l", "a", "m", "e", "n", "t", "_", "c", "o", "l", "o", "r">>,
     <<"s", "p", "o", "o", "l", "_", "w", "e", "i", "g", "h", "t">>,
     <<"f", "i", "l", "a", "m", "e", "n", "t", "_", "d", "i", "a", "m", "e", "t", "e", "r">>,
     <<"f", "i", "l", "e", "n", "a", "m", "e">>}
temperature_fields ==
    {<<"m", "i", "n", "_", "h", "o", "t", "e", "n", "d">>,
     <<"m", "a", "x", "_", "h", "o", "t", "e", "n", "d">>,
     <<"b", "e", "d", "_", "t", "e", "m", "p">>,
     <<"b", "e", "d", "_", "t", "e", "m", "p", "_", "t", "y", "p", "e">>,
     <<"d", "r", "y", "i", "n", "g", "_", "t", "i", "m", "e">>,
     <<"d", "r", "y", "i", "n", "g", "_", "t", "e", "m", "p">>}

HexDigitChars == {"0","1","2","3","4","5","6","7","8","9",
                  "a","b","c","d","e","f","A","B","C","D","E","F"}

\* the digits of a base-16 literal: hex digits, single underscores between
DigitGroups(t) ==
    /\ Len(t) > 0
    /\ \A k \in 1..Len(t) : t[k] \in HexDigitChars \cup {"_"}
    /\ t[1] # "_" /\ t[Len(t)] # "_"
    /\ \A k \in 1..(Len(t) - 1) : ~(t[k] = "_" /\ t[k + 1] = "_")

\* int(s, 16) returns (no ValueError): surrounding whitespace, one sign, a
\* 0x prefix (with one underscore after it) are accepted before the digits
Base16Parses(s) ==
    LET t == Strip(s)
        u == IF Len(t) > 0 /\ t[1] \in {"+", "-"} THEN Tail(t) ELSE t
        prefixed == Len(u) >= 2 /\ u[1] = "0" /\ u[2] \in {"x", "X"}
        v == IF prefixed THEN Slice(u, 2, Len(u)) ELSE u
        w == IF prefixed /\ Len(v) > 0 /\ v[1] = "_" THEN Tail(v) ELSE v
    IN  DigitGroups(w)

MISSING_REQUIRED == "Missing required fields"
TEMPERATURE_NOT_DICT == "Temperature section should be a dictionary"
UID_NOT_8_CHARS == "UID should be 8-character string"
UID_NOT_HEX == "UID should be valid hex string"
INVALID_JSON == "Invalid JSON format"
ERROR_READING == "Error reading file"
MISSING_TEMPERATURE == "Missing temperature fields"
NO_TEMPERATURE == "No temperature section found"
NO_BIN_FILE == "Corresponding .bin file not found"

\* "Validate UID format": the errors appended for the record data_
UidErrors(data_) ==
    IF ~DictHas(data_, UID) THEN << >>
    ELSE LET uid_ == DictGet(data_, UID)
         IN  IF uid_.type # "str" \/ Len(uid_.val) # 8
             THEN <<UID_NOT_8_CHARS>>
             ELSE IF ~Base16Parses(uid_.val)
                  THEN <<UID_NOT_HEX>>
                  ELSE << >>

\* validate_json_file(json_path) with the files fs: the result dictionary
validate_json_file(json_path, fs) ==
    LET failed(e) == [file |-> json_path, valid |-> FALSE,
                      errors |-> <<e>>, warnings |-> << >>]
    IN  IF ~DictHas(fs, json_path) THEN failed(ERROR_READING)
        ELSE LET file == DictGet(fs, json_path) IN
        IF ~file.readable THEN failed(ERROR_READING)
        ELSE IF "json_list" \in DOMAIN file THEN failed(ERROR_READING)
        ELSE IF "json" \notin DOMAIN file THEN failed(INVALID_JSON)
        ELSE
        LET data_ == file.json
            keys_ == {data_[k][1] : k \in 1..Len(data_)}
            e1 == IF required_fields \ keys_ # {} THEN <<MISSING_REQUIRED>>
                  ELSE << >>
            temps == DictGet(data_, TEMPERATURES)
            e2 == IF DictHas(data_, TEMPERATURES) /\ temps.type # "dict"
                  THEN <<TEMPERATURE_NOT_DICT>> ELSE << >>
            w1 == IF ~DictHas(data_, TEMPERATURES) THEN <<NO_TEMPERATURE>>
                  ELSE IF temps.type = "dict" /\
                          temperature_fields \
                            {temps.val[k][1] : k \in 1..Len(temps.val)} # {}
                       THEN <<MISSING_TEMPERATURE>>
                       ELSE << >>
            e3 == UidErrors(data_)
            w2 == IF ~DictHas(fs, Replace(json_path, DotJson, DotBin))
                  THEN <<NO_BIN_FILE>> ELSE << >>
            errs == e1 \o e2 \o e3
        IN  [file |-> json_path, valid |-> Len(errs) = 0,
             errors |-> errs, warnings |-> w1 \o w2]

\* the characters a UID of a report is drawn from, and the UIDs: eight
\* hexadecimal characters
UidChars == {"0", "1", "9", "a", "F"}
UidTexts == {<<a, a, a, b, b, b, c, c>> : a \in UidChars, b \in UidChars,
                                          c \in UidChars}

\* the reports "- uid: <U>", alone or followed by a filament type
UidReports ==
    {UidLinePrefix \o u : u \in UidTexts}
    \cup {JoinLines(<<UidLinePrefix \o u,
                      <<"-", " ", "f", "i", "l", "a", "m", "e", "n", "t", "_", "t", "y", "p", "e", ":", " ", "P", "L", "A">>>>) : u \in UidTexts}

\* where each script writes the record of DumpPath
DecryptedJsonPath == Replace(DumpPath, DotBin, DecryptedJson)
LocalJsonPath == Replace(DumpPath, DotBin, DotJson)

InitValidate ==
    /\ pc \in {"RFIDDecryptor.yaml_to_json", "yaml_to_json"}
    /\ yaml_output \in UidReports
    /\ filename = IF pc = "yaml_to_json" THEN Unset ELSE DumpPath
    /\ parse = ParserStart(yaml_output)
    /\ files = <<<<DumpPath, GoodDump>>>>
    /\ data = Unset
    /\ doc = Unset
    /\ blocks = Unset
    /\ sector_keys = Unset
    /\ access_conditions = Unset
    /\ sector = Unset
    /\ access_text = Unset
    /\ CRYPTO_AVAILABLE = Unset
    /\ uid = Unset
    /\ keys = Unset
    /\ key_file = Unset
    /\ dump_path = Unset
    /\ key_source = Unset
    /\ run_result = Unset
    /\ ret = Unset
    /\ BatchIdle
    /\ ToolIdle

ValidateFrame ==
    UNCHANGED <<data, doc, blocks, sector_keys, access_conditions, sector,
                access_text, CRYPTO_AVAILABLE, uid, keys, key_file,
                yaml_output, filename, parse, dump_path, key_source,
                run_result, batchvars, args, missing_files, files_before,
                key_bin_path>>

\* process_dump_file writes the record to <dump>-decrypted.json
WriteDecryptedJson ==
    /\ pc = "parsed"
    /\ files' = DictSet(files, DecryptedJsonPath, JsonFileOf(data))
    /\ pc' = "written"
    /\ UNCHANGED <<ret, errors>>
    /\ ValidateFrame

\* generate_json_for_bin adds the filename and writes <dump>.json
WriteLocalJson ==
    /\ pc = "parsed_local"
    /\ files' = DictSet(files, LocalJsonPath,
                        JsonFileOf(DictSet(data, FILENAME, PyStr(DumpPath))))
    /\ pc' = "written_local"
    /\ UNCHANGED <<ret, errors>>
    /\ ValidateFrame

\* validate_json_file on the file written
ValidateJsonFile ==
    /\ pc \in {"written", "written_local"}
    /\ ret' = validate_json_file(IF pc = "written" THEN DecryptedJsonPath
                                 ELSE LocalJsonPath, files)
    /\ errors' = ret'.errors
    /\ pc' = "validated"
    /\ UNCHANGED files
    /\ ValidateFrame

NextValidate ==
    \/ ParseStep \/ ParseReturn \/ LocalParseStep \/ LocalParseReturn
    \/ WriteDecryptedJson \/ WriteLocalJson \/ ValidateJsonFile

SpecValidate == InitValidate /\ [][NextValidate]_vars

\* the <U> of the report parsed, and the uid of the record validated
ReportUid == Slice(SplitNewlines(yaml_output)[1], Len(UidLinePrefix),
                   Len(UidLinePrefix) + 8)
ValidatedUid == DictGet(DictGet(files, ret.file).json, UID)
Validated == pc = "validated"

\* C27: for every 8-character hexadecimal <U>, the record a parser builds
\* from "- uid: <U>" stores uid as the 8-character string <U>, all-digit
\* and leading-zero values included, and the validator reports no UID
\* error for it.
C27_UidPassesValidator ==
    Validated =>
        /\ ValidatedUid = PyStr(ReportUid)
        /\ \A k \in 1..Len(errors) :
              errors[k] \notin {UID_NOT_8_CHARS, UID_NOT_HEX}

\* what does hold: a <U> with at least one letter is stored as text and
\* passes the UID check; an all-digit <U> is stored as the number it
\* denotes and fails it
UidWithLetterPasses ==
    Validated =>
        IF IsInt(ReportUid)
        THEN /\ ValidatedUid = PyInt(IntOf(ReportUid))
             /\ \E k \in 1..Len(errors) : errors[k] = UID_NOT_8_CHARS
        ELSE /\ ValidatedUid = PyStr(ReportUid)
             /\ \A k \in 1..Len(errors) :
                   errors[k] \notin {UID_NOT_8_CHARS, UID_NOT_HEX}

(* -------------------- temperature sub-fields (C28) ---------------------- *)
\* RFIDDecryptor.yaml_to_json is about to read a line that starts with the
\* two-space-plus-dash prefix of a temperature sub-field
AtSubFieldLine ==
    /\ pc = "RFIDDecryptor.yaml_to_json"
    /\ parse.i < Len(parse.lines)
    /\ StartsWith(CurrentLine, TempPrefix)

\* C28: in RFIDDecryptor.yaml_to_json a line "  - <key>: <value>" adds
\* <key> only to the temperatures mapping, and only in the run that follows
\* a "- temperatures:" header; read anywhere else it adds no top-level
\* field.
C28_NoTopLevelLeak ==
    [][AtSubFieldLine
       => IF parse.state = "InTemperatureBlock"
          THEN OtherFields(parse'.data) = OtherFields(parse.data)
          ELSE parse'.data = parse.data]_vars

\* what does hold: inside the block a sub-field line changes nothing but
\* the temperatures mapping, and outside the block a sub-field line of
\* shape "  - <key>: <value>" (or "  - <key>:") is stored as a top-level
\* field like the same line without its indentation
SubFieldOutsideBlockIsStored ==
    [][AtSubFieldLine
       => IF parse.state = "InTemperatureBlock"
          THEN OtherFields(parse'.data) = OtherFields(parse.data)
          ELSE LET l == Strip(CurrentLine)
               IN  IF IsValueLine(l)
                   THEN parse'.data = DictSet(parse.data, LineKey(l),
                                              Coerce(LineValue(l)))
                   ELSE IF IsEmptyValueLine(l)
                   THEN parse'.data = DictSet(parse.data, LineKey(l),
                                              PyStr(<< >>))
                   ELSE parse'.data = parse.data]_vars

====
